---- MODULE Spec2Model ----
(***************************************************************************)
(* A model of standup3000: the relational tables of db.py (user,          *)
(* department, department_reporter, meeting, section, todo,                *)
(* meeting_template, template_section), the db.py operations on them as    *)
(* operators from a database value to a database value and a return value, *)
(* and the route handlers of app.py as actions around those operators.     *)
(*                                                                         *)
(* Conventions.  A row id is its position in the table (ids are            *)
(* AUTOINCREMENT and only todo rows are ever deleted, so todo is a set of  *)
(* rows with a separate sequence counter).  SQL NULL / Python None in an   *)
(* id column is NoId, in a timestamp column NoTime, in a date argument     *)
(* NoDate.  Meeting dates are numbers ordered as the ISO strings are.      *)
(* Timestamps are readings of the variable now.                            *)
(***************************************************************************)
EXTENDS Integers, Sequences, FiniteSets, TLC

\* ------------------------------------------------------------- bounds
MaxDepts == 2
MaxDate == 2
MaxEdited == 1
MaxTemplates == 1
MaxTodos == 2
MaxClock == 2
MaxAdminOps == 1
MaxSnapshots == 1
MaxLoginClock == 61
WaitStep == 60
ScriptLen == 3
MaxExecuted == 2
MaxFrameOps == 3
\* The number of tracked addresses above which the sweep runs: small, for
\* the 1000 of auth._is_rate_limited.
SweepAbove == 1
MaxSweepClock == 62

\* ------------------------------------------------------------- values
NoId == 0
NoTime == 0
NoDate == 0

Dates == 1..MaxDate
DeptNames == {"Eng", "QA"}
\* name and is_special of the department-create forms
DeptForms == {<<"Eng", FALSE>>, <<"QA", TRUE>>}
Contents == {"x"}
DisplayNames == {"Bob", "Rob"}

\* db.py DEFAULT_SECTIONS: (name, reporter, is_special)
DEFAULT_SECTIONS ==
    << <<"Engineering", "", FALSE>>,
       <<"Design", "", FALSE>>,
       <<"Product", "", FALSE>>,
       <<"QA", "", FALSE>>,
       <<"Infrastructure", "", FALSE>>,
       <<"Support", "", FALSE>>,
       <<"Operations", "", FALSE>>,
       <<"PTO / Out of Office", "", TRUE>>,
       <<"Shoutouts", "", TRUE>> >>

\* Column defaults of rows inserted without a value for the column.
DefaultStatus == "open"
DefaultDone == FALSE
DefaultContent == ""

\* auth.py RATE_LIMIT and RATE_WINDOW (seconds)
RATE_LIMIT == 5
RATE_WINDOW == 60

\* Source addresses of requests, and the values a CSRF token takes; the form
\* field or header left out or left empty is NoToken.
IPs == {"ip1", "ip2"}
NoToken == ""
Tokens == {"t1", "t2"}
NoSession == [user_id |-> NoId, csrf_token |-> NoToken]
NoRequest == [method |-> "", endpoint |-> "", token |-> NoToken, ip |-> ""]
NoSave == [section |-> NoId, content |-> ""]

\* Character codes of '0' and '_'.
Zero == 48
Underscore == 95

\* The files of migrations/, each name up to its first underscore as a
\* string of character codes: "01_", "2_" and "10_".  Each file is a script
\* of ScriptLen statements.
MigrationFiles == {<<48, 49, 95>>, <<50, 95>>, <<49, 48, 95>>}

\* int(fname.split("_")[0])
RECURSIVE to_int(_, _)
to_int(str, acc) ==
    IF str = <<>> \/ Head(str) = Underscore THEN acc
    ELSE to_int(Tail(str), acc * 10 + (Head(str) - Zero))

version(fname) == to_int(fname, 0)

\* The versions of the files.
Migrations == {version(f) : f \in MigrationFiles}

\* Python's < on strings: by the first character that differs, a proper
\* prefix first.
RECURSIVE str_less(_, _)
str_less(a, b) ==
    IF a = <<>> THEN b # <<>>
    ELSE IF b = <<>> THEN FALSE
    ELSE IF Head(a) # Head(b) THEN Head(a) < Head(b)
    ELSE str_less(Tail(a), Tail(b))

\* sorted(): the strings of a set in ascending order.
RECURSIVE sorted(_)
sorted(strs) ==
    IF strs = {} THEN <<>>
    ELSE LET m == CHOOSE f \in strs : \A g \in strs \ {f} : str_less(f, g)
         IN  <<m>> \o sorted(strs \ {m})

VARIABLES
    user,                 \* table user: <<[display_name, role, is_active]>>
    department,           \* table department: <<[name, sort_order, is_special, is_archived]>>
    department_reporter,  \* table department_reporter: {[department_id, user_id, is_primary]}
    meeting,              \* table meeting: <<[date, created_at, status, locked_by, locked_at, template_id]>>
    section,              \* table section
    todo,                 \* table todo: set of rows, each with its id
    todo_seq,             \* sqlite_sequence of todo: the last id handed out
    meeting_template,     \* table meeting_template: <<[name]>>
    template_section,     \* table template_section: <<[template_id, department_id, sort_order, default_content]>>
    search_index,         \* table search_index: {[type, source_id, meeting_id, meeting_date, section_name, reporter, content]}
    meeting_attendance,   \* table meeting_attendance: {[meeting_id, user_id, status]}
    now,                  \* the clock read by datetime.utcnow()
    ret,                  \* the last call: [op, user, args, rv]
    admin_ops,            \* department edits so far, counted where a specification bounds them
    login_attempts,       \* auth._login_attempts: ip -> <<times of the attempts recorded>>
    failed_logins,        \* history: ip -> <<times of the logins answered 401>>
    session,              \* the browser's Flask session: [user_id, _csrf_token]
    request,              \* the last HTTP request: [method, endpoint, token, ip]
    schema_version,       \* table schema_version: the versions recorded
    executed,             \* history: migration -> <<times each statement has run>>
    in_flight             \* user -> the section save that passed its check and has not written

vars == <<user, department, department_reporter, meeting, section, todo,
          todo_seq, meeting_template, template_section, search_index,
          meeting_attendance, now, ret, admin_ops,
          login_attempts, failed_logins, session, request, schema_version,
          executed, in_flight>>

\* What the login, CSRF and migration code reads and writes.
web == <<login_attempts, failed_logins, session, request>>
schema == <<schema_version, executed>>
\* What a call into db.py outside run_migrations leaves alone.
idle == <<admin_ops, web, schema, in_flight>>

\* The database as one value, and its assignment to the next state.
DB ==
    [user |-> user, department |-> department,
     department_reporter |-> department_reporter, meeting |-> meeting,
     section |-> section, todo |-> todo, todo_seq |-> todo_seq,
     meeting_template |-> meeting_template,
     template_section |-> template_section, search_index |-> search_index,
     meeting_attendance |-> meeting_attendance]

Store(D) ==
    /\ user' = D.user
    /\ department' = D.department
    /\ department_reporter' = D.department_reporter
    /\ meeting' = D.meeting
    /\ section' = D.section
    /\ todo' = D.todo
    /\ todo_seq' = D.todo_seq
    /\ meeting_template' = D.meeting_template
    /\ template_section' = D.template_section
    /\ search_index' = D.search_index
    /\ meeting_attendance' = D.meeting_attendance

Ids(table) == 1..Len(table)

Call(op, u, args, rv) == [op |-> op, user |-> u, args |-> args, rv |-> rv]

\* ORDER BY key: the ids of `ids` by ascending key, equal keys in rowid order.
RECURSIVE OrderBy(_, _)
OrderBy(ids, key) ==
    IF ids = {} THEN <<>>
    ELSE LET m == CHOOSE i \in ids :
                    \A j \in ids : key[i] < key[j] \/ (key[i] = key[j] /\ i <= j)
         IN  <<m>> \o OrderBy(ids \ {m}, key)

\* ------------------------------------------------------------- departments

\* db.create_department: sort_order is MAX(sort_order) + 1; a taken name is an
\* IntegrityError and returns None.
create_department(D, name, is_special) ==
    IF \E d \in Ids(D.department) : D.department[d].name = name
    THEN [D |-> D, rv |-> NoId]
    ELSE LET orders == {D.department[d].sort_order : d \in Ids(D.department)}
             max_order == IF orders = {} THEN -1
                          ELSE CHOOSE o \in orders : \A p \in orders : p <= o
         IN  [D |-> [D EXCEPT !.department = Append(@,
                        [name |-> name, sort_order |-> max_order + 1,
                         is_special |-> is_special, is_archived |-> FALSE])],
              rv |-> Len(D.department) + 1]

\* update_department that also renames the sections made from the department.
update_department_and_sections(D, dept_id, name, is_special, is_archived) ==
    IF \E d \in Ids(D.department) : d # dept_id /\ D.department[d].name = name
    THEN [D |-> D, rv |-> FALSE]
    ELSE [D |-> [D EXCEPT
            !.department[dept_id] =
                [@ EXCEPT !.name = name, !.is_special = is_special,
                          !.is_archived = is_archived],
            !.section = [s \in Ids(D.section) |->
                IF D.section[s].department_id = dept_id
                THEN [D.section[s] EXCEPT !.name = name] ELSE D.section[s]]],
          rv |-> TRUE]

\* db.update_department, called as department_edit calls it: name, is_special
\* and is_archived are all given.  A name another department holds is an
\* IntegrityError that nothing catches: the request fails, nothing is committed.
update_department(D, dept_id, name, is_special, is_archived) ==
    IF \E d \in Ids(D.department) : d # dept_id /\ D.department[d].name = name
    THEN [D |-> D, rv |-> FALSE]
    ELSE [D |-> [D EXCEPT !.department[dept_id] =
                    [@ EXCEPT !.name = name, !.is_special = is_special,
                              !.is_archived = is_archived]],
          rv |-> TRUE]

\* db.list_departments: ORDER BY sort_order, archived ones only on request.
list_departments(D, include_archived) ==
    LET shown == {d \in Ids(D.department) :
                    include_archived \/ ~D.department[d].is_archived}
    IN  OrderBy(shown, [d \in shown |-> D.department[d].sort_order])

\* A reorder that writes only the first position of the list.
reorder_first_only(depts, dept_ids, i) ==
    IF dept_ids # <<>> /\ dept_ids[1] \in Ids(depts)
    THEN [depts EXCEPT ![dept_ids[1]].sort_order = 0]
    ELSE depts

\* db.reorder_departments: position i of the list becomes sort_order i.
RECURSIVE reorder_from(_, _, _)
reorder_from(depts, dept_ids, i) ==
    IF i > Len(dept_ids) THEN depts
    ELSE reorder_from(
            IF dept_ids[i] \in Ids(depts)
            THEN [depts EXCEPT ![dept_ids[i]].sort_order = i - 1]
            ELSE depts,
            dept_ids, i + 1)

reorder_departments(D, dept_ids) ==
    [D EXCEPT !.department = reorder_from(@, dept_ids, 1)]

\* db.set_department_reporters: delete the department's rows, insert the entries.
\* set_department_reporters without its DELETE: the entries are added to the
\* rows the department has.
set_department_reporters_append(D, dept_id, reporter_entries) ==
    [D EXCEPT !.department_reporter =
        @ \cup {[department_id |-> dept_id, user_id |-> e[1], is_primary |-> e[2]] :
                e \in reporter_entries}]

set_department_reporters(D, dept_id, reporter_entries) ==
    [D EXCEPT !.department_reporter =
        {r \in @ : r.department_id # dept_id}
        \cup {[department_id |-> dept_id, user_id |-> e[1], is_primary |-> e[2]] :
                e \in reporter_entries}]

\* admin._save_reporters: at most one primary, the backups other than it.
save_reporter_entries(primary_id, backup_ids) ==
    (IF primary_id # NoId THEN {<<primary_id, TRUE>>} ELSE {})
    \cup {<<b, FALSE>> : b \in backup_ids \ {primary_id}}

\* The reporter_row query of create_meeting and create_meeting_from_template:
\* the user joined to the department's is_primary row (LIMIT 1), NoId if none.
primary_reporter(D, dept_id) ==
    LET rows == {r \in D.department_reporter :
                    /\ r.department_id = dept_id
                    /\ r.is_primary
                    /\ r.user_id \in Ids(D.user)}
    IN  IF rows = {} THEN NoId
        ELSE (CHOOSE r \in rows : \A q \in rows : r.user_id <= q.user_id).user_id

reporter_name(D, uid) == IF uid = NoId THEN "" ELSE D.user[uid].display_name

\* An update_user that also rewrites the name in the user's sections.
update_user_and_sections(D, user_id, display_name, role, is_active) ==
    [D EXCEPT !.user[user_id] =
                [@ EXCEPT !.display_name = display_name, !.role = role,
                          !.is_active = is_active],
              !.section = [s \in Ids(D.section) |->
                IF D.section[s].reporter_id = user_id
                THEN [D.section[s] EXCEPT !.reporter = display_name]
                ELSE D.section[s]]]

\* db.update_user, called as user_edit calls it.
update_user(D, user_id, display_name, role, is_active) ==
    [D EXCEPT !.user[user_id] =
        [@ EXCEPT !.display_name = display_name, !.role = role,
                  !.is_active = is_active]]

\* ------------------------------------------------------------- meetings

MeetingByDate(D, d) == {m \in Ids(D.meeting) : D.meeting[m].date = d}

\* An INSERT violating meeting.date UNIQUE never takes place.
date_taken_never(D, d) == FALSE

\* meeting.date is UNIQUE: the INSERT of a taken date raises IntegrityError.
date_taken(D, d) == MeetingByDate(D, d) # {}

SectionsOf(D, m) == {s \in Ids(D.section) : D.section[s].meeting_id = m}

\* db.get_sections: the meeting's section ids, ORDER BY sort_order.
get_sections(D, m) ==
    OrderBy(SectionsOf(D, m), [s \in SectionsOf(D, m) |-> D.section[s].sort_order])

NewSection(m, name, reporter, sort_order, is_special, content, dept, rid) ==
    [meeting_id |-> m, name |-> name, reporter |-> reporter,
     sort_order |-> sort_order, is_special |-> is_special, content |-> content,
     department_id |-> dept, reporter_id |-> rid, updated_at |-> NoTime]

NewMeeting(date, t, template_id) ==
    [date |-> date, created_at |-> t, status |-> DefaultStatus,
     locked_by |-> NoId, locked_at |-> NoTime, template_id |-> template_id]

\* A copy that takes the layout of the source and leaves the content empty.
copied_sections_empty(D, mid, prev) ==
    LET src == get_sections(D, prev)
    IN  [k \in 1..Len(src) |->
            LET s == D.section[src[k]]
            IN  NewSection(mid, s.name, s.reporter, s.sort_order, s.is_special,
                           DefaultContent, s.department_id, s.reporter_id)]

\* The three ways create_meeting fills the new meeting's sections.
copied_sections(D, mid, prev) ==
    LET src == get_sections(D, prev)
    IN  [k \in 1..Len(src) |->
            LET s == D.section[src[k]]
            IN  NewSection(mid, s.name, s.reporter, s.sort_order, s.is_special,
                           s.content, s.department_id, s.reporter_id)]

active_departments(D) ==
    LET act == {d \in Ids(D.department) : ~D.department[d].is_archived}
    IN  OrderBy(act, [d \in act |-> D.department[d].sort_order])

department_sections(D, mid, depts) ==
    [k \in 1..Len(depts) |->
        LET dept == D.department[depts[k]]
            rid == primary_reporter(D, depts[k])
        IN  NewSection(mid, dept.name, reporter_name(D, rid), dept.sort_order,
                       dept.is_special, "", depts[k], rid)]

default_sections(mid) ==
    [k \in 1..Len(DEFAULT_SECTIONS) |->
        NewSection(mid, DEFAULT_SECTIONS[k][1], DEFAULT_SECTIONS[k][2], k - 1,
                   DEFAULT_SECTIONS[k][3], DefaultContent, NoId, NoId)]

\* db.create_meeting.  The INSERT of a taken date is an IntegrityError: None
\* is returned and the connection is closed without a commit.
create_meeting(D, meeting_date, copy_from, t) ==
    IF date_taken(D, meeting_date)
    THEN [D |-> D, rv |-> NoId]
    ELSE
        LET mid == Len(D.meeting) + 1
            D1 == [D EXCEPT !.meeting = Append(@, NewMeeting(meeting_date, t, NoId))]
            prevs == IF copy_from = NoDate THEN {} ELSE MeetingByDate(D1, copy_from)
            depts == active_departments(D1)
            rows == IF prevs # {}
                    THEN copied_sections(D1, mid, CHOOSE p \in prevs : TRUE)
                    ELSE IF depts # <<>>
                    THEN department_sections(D1, mid, depts)
                    ELSE default_sections(mid)
        IN  [D |-> [D1 EXCEPT !.section = @ \o rows], rv |-> mid]

\* ------------------------------------------------------------- sections

\* db.update_section: content and updated_at of the one row.
\* The search_index row of a section and of a todo, as both the incremental
\* updates and rebuild_search_index select them.
section_entry(D, sid) ==
    LET s == D.section[sid]
    IN  [type |-> "section", source_id |-> sid, meeting_id |-> s.meeting_id,
         meeting_date |-> D.meeting[s.meeting_id].date, section_name |-> s.name,
         reporter |-> s.reporter, content |-> s.content]

todo_entry(D, row) ==
    LET s == D.section[row.section_id]
    IN  [type |-> "todo", source_id |-> row.id, meeting_id |-> s.meeting_id,
         meeting_date |-> D.meeting[s.meeting_id].date, section_name |-> s.name,
         reporter |-> s.reporter, content |-> row.text]

\* db._update_section_index: the section's entry is deleted, and inserted
\* again if the section has content.
update_section_index(D, sid) ==
    [D EXCEPT !.search_index =
        {e \in @ : ~(e.type = "section" /\ e.source_id = sid)}
        \cup (IF /\ sid \in Ids(D.section)
                 /\ D.section[sid].content # ""
                 /\ D.section[sid].meeting_id \in Ids(D.meeting)
              THEN {section_entry(D, sid)} ELSE {})]

\* db._update_todo_index
update_todo_index(D, tid) ==
    [D EXCEPT !.search_index =
        {e \in @ : ~(e.type = "todo" /\ e.source_id = tid)}
        \cup {todo_entry(D, r) : r \in {q \in D.todo :
                    /\ q.id = tid
                    /\ q.section_id \in Ids(D.section)
                    /\ D.section[q.section_id].meeting_id \in Ids(D.meeting)}}]

\* db.rebuild_search_index: every section with content and every todo.
rebuild_search_index(D) ==
    [D EXCEPT !.search_index =
        {section_entry(D, sid) : sid \in {q \in Ids(D.section) :
                    /\ D.section[q].content # ""
                    /\ D.section[q].meeting_id \in Ids(D.meeting)}}
        \cup {todo_entry(D, r) : r \in {q \in D.todo :
                    /\ q.section_id \in Ids(D.section)
                    /\ D.section[q.section_id].meeting_id \in Ids(D.meeting)}}]

\* An update_section that writes only into a section without content.
update_section_if_empty(D, section_id, content, t) ==
    update_section_index(
        IF section_id \in Ids(D.section) /\ D.section[section_id].content = ""
        THEN [D EXCEPT !.section[section_id] =
                [@ EXCEPT !.content = content, !.updated_at = t]]
        ELSE D,
        section_id)

\* db.update_section: the row, then its search_index entry.
update_section(D, section_id, content, t) ==
    update_section_index(
        IF section_id \in Ids(D.section)
        THEN [D EXCEPT !.section[section_id] =
                [@ EXCEPT !.content = content, !.updated_at = t]]
        ELSE D,
        section_id)

\* An is_meeting_locked that finds every meeting open.
is_meeting_locked_never(D, meeting_id) == FALSE

\* db.is_meeting_locked: a missing meeting is not locked.
is_meeting_locked(D, meeting_id) ==
    /\ meeting_id \in Ids(D.meeting)
    /\ D.meeting[meeting_id].status = "locked"

\* can_edit_section with the role rule tried before the lock.
can_edit_section_admin_first(D, u, s) ==
    IF u.role = "admin" THEN TRUE
    ELSE IF is_meeting_locked(D, s.meeting_id) THEN FALSE
    ELSE IF s.reporter_id # NoId /\ s.reporter_id = u.id THEN TRUE
    ELSE s.department_id # NoId
         /\ \E r \in D.department_reporter :
                r.department_id = s.department_id /\ r.user_id = u.id

\* db.can_edit_section, on the user row u (with its id) and the section row s:
\* the rules are tried in the order of the code.
can_edit_section(D, u, s) ==
    IF is_meeting_locked(D, s.meeting_id) THEN FALSE
    ELSE IF u.role = "admin" THEN TRUE
    ELSE IF s.reporter_id # NoId /\ s.reporter_id = u.id THEN TRUE
    ELSE IF s.department_id # NoId
            /\ \E r \in D.department_reporter :
                    r.department_id = s.department_id /\ r.user_id = u.id
         THEN TRUE
    ELSE FALSE

\* The row get_current_user hands to the handlers: the user row and its id.
UserRow(D, uid) ==
    [id |-> uid, role |-> D.user[uid].role,
     display_name |-> D.user[uid].display_name,
     is_active |-> D.user[uid].is_active]

\* ------------------------------------------------------------- lifecycle

\* A lock that stamps the meeting again when it is already locked.
lock_meeting_again(D, meeting_id, user_id, t) ==
    IF meeting_id \notin Ids(D.meeting) THEN [D |-> D, rv |-> FALSE]
    ELSE [D |-> [D EXCEPT !.meeting[meeting_id] =
                    [@ EXCEPT !.status = "locked", !.locked_by = user_id,
                              !.locked_at = t]],
          rv |-> TRUE]

\* An unlock that reopens the meeting and keeps the record of who locked it.
unlock_meeting_keeps_record(D, meeting_id) ==
    IF meeting_id \notin Ids(D.meeting) THEN [D |-> D, rv |-> FALSE]
    ELSE [D |-> [D EXCEPT !.meeting[meeting_id] = [@ EXCEPT !.status = "open"]],
          rv |-> TRUE]

\* db.lock_meeting: False for a missing meeting, True and nothing written for
\* a locked one, otherwise status, locked_by and locked_at are set.
lock_meeting(D, meeting_id, user_id, t) ==
    IF meeting_id \notin Ids(D.meeting) THEN [D |-> D, rv |-> FALSE]
    ELSE IF D.meeting[meeting_id].status = "locked" THEN [D |-> D, rv |-> TRUE]
    ELSE [D |-> [D EXCEPT !.meeting[meeting_id] =
                    [@ EXCEPT !.status = "locked", !.locked_by = user_id,
                              !.locked_at = t]],
          rv |-> TRUE]

\* db.unlock_meeting
unlock_meeting(D, meeting_id) ==
    IF meeting_id \notin Ids(D.meeting) THEN [D |-> D, rv |-> FALSE]
    ELSE [D |-> [D EXCEPT !.meeting[meeting_id] =
                    [@ EXCEPT !.status = "open", !.locked_by = NoId,
                              !.locked_at = NoTime]],
          rv |-> TRUE]

\* db.get_latest_meeting: ORDER BY date DESC LIMIT 1, NoId when there is none.
get_latest_meeting(D) ==
    IF D.meeting = <<>> THEN NoId
    ELSE CHOOSE m \in Ids(D.meeting) :
            \A k \in Ids(D.meeting) : D.meeting[k].date <= D.meeting[m].date

\* ------------------------------------------------------------- templates

\* db.create_template: a taken name is an IntegrityError (rolled back, None);
\* the departments become template sections 0, 1, ... with no default content.
create_template(D, name, department_ids) ==
    IF \E i \in Ids(D.meeting_template) : D.meeting_template[i].name = name
    THEN [D |-> D, rv |-> NoId]
    ELSE LET tid == Len(D.meeting_template) + 1
         IN  [D |-> [D EXCEPT
                !.meeting_template = Append(@, [name |-> name]),
                !.template_section = @ \o
                    [i \in 1..Len(department_ids) |->
                        [template_id |-> tid, department_id |-> department_ids[i],
                         sort_order |-> i - 1, default_content |-> DefaultContent]]],
              rv |-> tid]

\* db.save_template_from_meeting: the meeting's sections that have a
\* department, in sort order, each with its content as default_content.
save_template_from_meeting(D, meeting_id, name) ==
    IF \E i \in Ids(D.meeting_template) : D.meeting_template[i].name = name
    THEN [D |-> D, rv |-> NoId]
    ELSE LET tid == Len(D.meeting_template) + 1
             kept == SelectSeq(get_sections(D, meeting_id),
                               LAMBDA s : D.section[s].department_id # NoId)
         IN  [D |-> [D EXCEPT
                !.meeting_template = Append(@, [name |-> name]),
                !.template_section = @ \o
                    [i \in 1..Len(kept) |->
                        [template_id |-> tid,
                         department_id |-> D.section[kept[i]].department_id,
                         sort_order |-> D.section[kept[i]].sort_order,
                         default_content |-> D.section[kept[i]].content]]],
              rv |-> tid]

\* The template's rows with only those of a missing department skipped.
template_rows_archived_too(D, template_id) ==
    LET rows == {i \in Ids(D.template_section) :
                    D.template_section[i].template_id = template_id}
        ordered == OrderBy(rows, [i \in rows |-> D.template_section[i].sort_order])
    IN  SelectSeq(ordered, LAMBDA i :
            D.template_section[i].department_id \in Ids(D.department))

\* The template's rows in ORDER BY sort_order, those of a missing or archived
\* department skipped.
template_rows(D, template_id) ==
    LET rows == {i \in Ids(D.template_section) :
                    D.template_section[i].template_id = template_id}
        ordered == OrderBy(rows, [i \in rows |-> D.template_section[i].sort_order])
    IN  SelectSeq(ordered, LAMBDA i :
            /\ D.template_section[i].department_id \in Ids(D.department)
            /\ ~D.department[D.template_section[i].department_id].is_archived)

\* db.create_meeting_from_template
create_meeting_from_template(D, meeting_date, template_id, t) ==
    IF date_taken(D, meeting_date)
    THEN [D |-> D, rv |-> NoId]
    ELSE
        LET mid == Len(D.meeting) + 1
            D1 == [D EXCEPT !.meeting =
                        Append(@, NewMeeting(meeting_date, t, template_id))]
            ts == template_rows(D1, template_id)
            rows == [k \in 1..Len(ts) |->
                        LET row == D1.template_section[ts[k]]
                            dept == D1.department[row.department_id]
                            rid == primary_reporter(D1, row.department_id)
                        IN  NewSection(mid, dept.name, reporter_name(D1, rid),
                                       row.sort_order, dept.is_special,
                                       row.default_content, row.department_id, rid)]
        IN  [D |-> [D1 EXCEPT !.section = @ \o rows], rv |-> mid]

\* A deleted template: its row is gone, its id is not handed out again.
NoTemplate == [name |-> NoId]

\* db.get_template
get_template(D, template_id) ==
    /\ template_id \in Ids(D.meeting_template)
    /\ D.meeting_template[template_id] # NoTemplate

\* db.update_template as admin.template_edit calls it, with a name and a list
\* of departments: a name another template has is an IntegrityError (rolled
\* back, False); else the template's rows are deleted and recreated 0, 1, ...
update_template(D, template_id, name, department_ids) ==
    IF \E i \in Ids(D.meeting_template) :
            i # template_id /\ D.meeting_template[i].name = name
    THEN [D |-> D, rv |-> FALSE]
    ELSE [D |-> [D EXCEPT
            !.meeting_template[template_id].name = name,
            !.template_section =
                SelectSeq(@, LAMBDA r : r.template_id # template_id) \o
                [i \in 1..Len(department_ids) |->
                    [template_id |-> template_id,
                     department_id |-> department_ids[i],
                     sort_order |-> i - 1, default_content |-> DefaultContent]]],
          rv |-> TRUE]

\* What DELETE FROM meeting_template does to the rows that refer to the
\* template is decided by the table definitions of the migration scripts: the
\* template's rows go with it, or stay behind, or the statement is refused
\* with an IntegrityError.
DeleteOutcomes == {"rows_too", "template_only", "refused"}

\* db.delete_template
delete_template(D, template_id, outcome) ==
    IF outcome = "refused" THEN D
    ELSE [D EXCEPT
            !.meeting_template[template_id] = NoTemplate,
            !.template_section =
                IF outcome = "rows_too"
                THEN SelectSeq(@, LAMBDA r : r.template_id # template_id)
                ELSE @]

\* ------------------------------------------------------------- todos

Priorities == {"low", "normal", "high"}

TodoIds(D) == {t.id : t \in D.todo}
TodoRow(D, id) == CHOOSE t \in D.todo : t.id = id

\* An add_todo that stores the priority as given.
add_todo_any_priority(D, section_id, text, assigned_to, due_date, priority, created_by, t) ==
    LET id == D.todo_seq + 1
        row == [id |-> id, section_id |-> section_id, text |-> text,
                done |-> DefaultDone, assigned_to |-> assigned_to,
                due_date |-> due_date, priority |-> priority,
                created_by |-> created_by, created_at |-> t,
                completed_at |-> NoTime]
    IN  update_todo_index([D EXCEPT !.todo = @ \cup {row}, !.todo_seq = id], id)

\* db.add_todo: a priority outside low, normal, high is stored as normal.
add_todo(D, section_id, text, assigned_to, due_date, priority, created_by, t) ==
    LET id == D.todo_seq + 1
        row == [id |-> id, section_id |-> section_id, text |-> text,
                done |-> DefaultDone, assigned_to |-> assigned_to,
                due_date |-> due_date,
                priority |-> IF priority \in Priorities THEN priority ELSE "normal",
                created_by |-> created_by, created_at |-> t,
                completed_at |-> NoTime]
    IN  update_todo_index([D EXCEPT !.todo = @ \cup {row}, !.todo_seq = id], id)

\* A toggle that leaves completed_at in place when it reopens a todo.
toggle_todo_keeps_time(D, todo_id, t) ==
    IF todo_id \notin TodoIds(D) THEN D
    ELSE LET row == TodoRow(D, todo_id)
             new == IF row.done
                    THEN [row EXCEPT !.done = FALSE]
                    ELSE [row EXCEPT !.done = TRUE, !.completed_at = t]
         IN  [D EXCEPT !.todo = (@ \ {row}) \cup {new}]

\* A toggle that completes a todo without a completion time.
toggle_todo_no_time(D, todo_id, t) ==
    IF todo_id \notin TodoIds(D) THEN D
    ELSE LET row == TodoRow(D, todo_id)
             new == [row EXCEPT !.done = ~row.done, !.completed_at = NoTime]
         IN  [D EXCEPT !.todo = (@ \ {row}) \cup {new}]

\* db.toggle_todo
toggle_todo(D, todo_id, t) ==
    IF todo_id \notin TodoIds(D) THEN D
    ELSE LET row == TodoRow(D, todo_id)
             new == IF row.done
                    THEN [row EXCEPT !.done = FALSE, !.completed_at = NoTime]
                    ELSE [row EXCEPT !.done = TRUE, !.completed_at = t]
         IN  [D EXCEPT !.todo = (@ \ {row}) \cup {new}]

\* db.delete_todo: the search_index entry, then the row.
delete_todo(D, todo_id) ==
    [D EXCEPT !.search_index =
                {e \in @ : ~(e.type = "todo" /\ e.source_id = todo_id)},
              !.todo = {r \in @ : r.id # todo_id}]

\* A lookup that settles for the first section of the target meeting when
\* neither the department nor the name is found there.
target_sections_any(D, orig_section, target_meeting_id) ==
    LET in_target == SectionsOf(D, target_meeting_id)
        by_dept == {s \in in_target :
                        /\ orig_section.department_id # NoId
                        /\ D.section[s].department_id = orig_section.department_id}
        by_name == {s \in in_target : D.section[s].name = orig_section.name}
    IN  IF by_dept # {} THEN by_dept
        ELSE IF by_name # {} THEN by_name
        ELSE in_target

\* The target_section queries with the name tried first, the department only
\* when no section of the target meeting has the name.
target_sections_name_first(D, orig_section, target_meeting_id) ==
    LET in_target == SectionsOf(D, target_meeting_id)
        by_name == {s \in in_target : D.section[s].name = orig_section.name}
    IN  IF by_name # {} THEN by_name
        ELSE {s \in in_target :
                /\ orig_section.department_id # NoId
                /\ D.section[s].department_id = orig_section.department_id}

\* The target_section queries of carry_forward_todo: by department_id when the
\* originating section has one, else (or when none matches) by name.
target_sections(D, orig_section, target_meeting_id) ==
    LET in_target == SectionsOf(D, target_meeting_id)
        by_dept == IF orig_section.department_id # NoId
                   THEN {s \in in_target :
                            D.section[s].department_id = orig_section.department_id}
                   ELSE {}
    IN  IF by_dept # {} THEN by_dept
        ELSE {s \in in_target : D.section[s].name = orig_section.name}

\* A carry-forward that moves the todo: the copy is inserted and the original
\* row is deleted.
carry_forward_todo_move(D, todo_id, target_meeting_id, t) ==
    IF todo_id \notin TodoIds(D) THEN [D |-> D, rv |-> NoId]
    ELSE
        LET original == TodoRow(D, todo_id)
            found == target_sections(D, D.section[original.section_id],
                                     target_meeting_id)
        IN  IF found = {} THEN [D |-> D, rv |-> NoId]
            ELSE
                LET target == CHOOSE s \in found : \A q \in found : s <= q
                    new_id == D.todo_seq + 1
                    copy == [original EXCEPT !.id = new_id, !.section_id = target,
                                             !.done = DefaultDone, !.created_at = t,
                                             !.completed_at = NoTime]
                IN  [D |-> [D EXCEPT !.todo = (@ \ {original}) \cup {copy},
                                     !.todo_seq = new_id],
                     rv |-> new_id]

\* db.carry_forward_todo: None when the todo, its section or a matching target
\* section is missing; else a copy is inserted and the original marked done.
carry_forward_todo(D, todo_id, target_meeting_id, t) ==
    IF todo_id \notin TodoIds(D) THEN [D |-> D, rv |-> NoId]
    ELSE
        LET original == TodoRow(D, todo_id)
        IN  IF original.section_id \notin Ids(D.section) THEN [D |-> D, rv |-> NoId]
            ELSE
                LET found == target_sections(D, D.section[original.section_id],
                                             target_meeting_id)
                IN  IF found = {} THEN [D |-> D, rv |-> NoId]
                    ELSE
                        LET target == CHOOSE s \in found : \A q \in found : s <= q
                            new_id == D.todo_seq + 1
                            copy == [id |-> new_id, section_id |-> target,
                                     text |-> original.text, done |-> DefaultDone,
                                     assigned_to |-> original.assigned_to,
                                     due_date |-> original.due_date,
                                     priority |-> original.priority,
                                     created_by |-> original.created_by,
                                     created_at |-> t, completed_at |-> NoTime]
                            closed == [original EXCEPT !.done = TRUE,
                                                       !.completed_at = t]
                        IN  [D |-> [D EXCEPT
                                !.todo = ((@ \ {original}) \cup {closed}) \cup {copy},
                                !.todo_seq = new_id],
                             rv |-> new_id]

\* ------------------------------------------------------------- actions
\* One action per route handler (app.py, admin.py) or direct db.py call.  The
\* acting user u is the session's user: get_current_user gives a row only for
\* an active user, admin_required lets only role admin through.

LoggedIn(u) == u \in Ids(user) /\ user[u].is_active
Admin(u) == LoggedIn(u) /\ user[u].role = "admin"

\* Sequences of distinct ids of the set S (a submitted ordering or selection).
Orderings(S) ==
    UNION {{q \in [1..n -> S] : \A i, j \in 1..n : i # j => q[i] # q[j]} :
            n \in 0..Cardinality(S)}

\* The users offered as reporters, and the forms _save_reporters reads.
ReporterCandidates == {u \in Ids(user) : user[u].role = "member"}
ReporterForms ==
    {f \in (ReporterCandidates \cup {NoId}) \X (SUBSET ReporterCandidates) :
        f[1] \notin f[2]}

\* admin.department_create: create_department, then _save_reporters.
DepartmentCreate ==
    /\ Len(department) < MaxDepts
    /\ \E u \in Ids(user), form \in DeptForms, f \in ReporterForms :
         /\ Admin(u)
         /\ LET r == create_department(DB, form[1], form[2])
                entries == save_reporter_entries(f[1], f[2])
                D2 == IF r.rv = NoId THEN r.D
                      ELSE set_department_reporters(r.D, r.rv, entries)
            IN  /\ Store(D2)
                /\ ret' = Call("department_create", u,
                               IF r.rv = NoId THEN <<>> ELSE <<r.rv, entries>>, r.rv)
    /\ UNCHANGED now

\* admin.department_edit: update_department, then _save_reporters (not reached
\* when the rename raises).  The form resubmits is_special as stored.
DepartmentEdit ==
    /\ \E u \in Ids(user), d \in Ids(department), name \in DeptNames,
          ar \in BOOLEAN, f \in ReporterForms :
         /\ Admin(u)
         /\ LET r == update_department(DB, d, name, department[d].is_special, ar)
                entries == save_reporter_entries(f[1], f[2])
                D2 == IF r.rv THEN set_department_reporters(r.D, d, entries) ELSE r.D
            IN  /\ Store(D2)
                /\ ret' = Call("department_edit", u,
                               IF r.rv THEN <<d, entries>> ELSE <<d>>,
                               IF r.rv THEN d ELSE NoId)
    /\ UNCHANGED now

\* admin.departments_reorder with the list the page sends, every department
\* once; an empty list is ignored.
DepartmentsReorder ==
    /\ \E u \in Ids(user), order \in Orderings(Ids(department)) :
         /\ Admin(u)
         /\ Len(order) = Len(department)
         /\ order # <<>>
         /\ Store(reorder_departments(DB, order))
         /\ ret' = Call("departments_reorder", u, <<>>, NoId)
    /\ UNCHANGED now

\* admin.user_edit with the role and is_active the user has: a new display name.
UserEdit ==
    /\ \E u \in Ids(user), e \in Ids(user), dn \in DisplayNames :
         /\ Admin(u)
         /\ e # u
         /\ Store(update_user(DB, e, dn, user[e].role, user[e].is_active))
         /\ ret' = Call("user_edit", u, <<e>>, NoId)
    /\ UNCHANGED now

MeetingDates == {meeting[m].date : m \in Ids(meeting)}

\* app.meeting_new for the next date or one already taken, copying from nothing
\* or from an existing meeting: with a template_id, create_meeting_from_template; when that
\* gave no meeting (or no template was asked for), create_meeting.
MeetingNew ==
    /\ \E u \in Ids(user), d \in Dates, c \in MeetingDates \cup {NoDate},
          tpl \in {t \in Ids(meeting_template) : get_template(DB, t)} \cup {NoId} :
         /\ LoggedIn(u)
         /\ d <= Len(meeting) + 1
         /\ LET r1 == IF tpl # NoId
                      THEN create_meeting_from_template(DB, d, tpl, now)
                      ELSE [D |-> DB, rv |-> NoId]
                r == IF r1.rv = NoId THEN create_meeting(r1.D, d, c, now) ELSE r1
            IN  /\ Store(r.D)
                /\ ret' = Call("meeting_new", u, <<d, c, tpl>>, r.rv)
    /\ UNCHANGED now

\* admin.template_create
TemplateCreate ==
    /\ \E u \in Ids(user), name \in 1..MaxTemplates,
          depts \in Orderings(Ids(department)) :
         /\ Admin(u)
         /\ LET r == create_template(DB, name, depts)
            IN  /\ Store(r.D)
                /\ ret' = Call("template_create", u, <<name>>, r.rv)
    /\ UNCHANGED now

\* admin.template_save_from_meeting
TemplateSaveFromMeeting ==
    /\ \E u \in Ids(user), m \in Ids(meeting), name \in 1..MaxTemplates :
         /\ Admin(u)
         /\ LET r == save_template_from_meeting(DB, m, name)
            IN  /\ Store(r.D)
                /\ ret' = Call("template_save_from_meeting", u, <<m, name>>, r.rv)
    /\ UNCHANGED now

\* admin.template_edit: 404 without the template, else update_template with
\* the name and the departments of the form.
TemplateEdit ==
    /\ \E u \in Ids(user), tpl \in Ids(meeting_template),
          name \in 1..MaxTemplates, depts \in Orderings(Ids(department)) :
         /\ Admin(u)
         /\ get_template(DB, tpl)
         /\ LET r == update_template(DB, tpl, name, depts)
            IN  /\ Store(r.D)
                /\ ret' = Call("template_edit", u, <<tpl, name>>,
                               IF r.rv THEN tpl ELSE NoId)
    /\ UNCHANGED now

\* admin.template_delete: 404 without the template, else delete_template.
TemplateDelete ==
    /\ \E u \in Ids(user), tpl \in Ids(meeting_template),
          outcome \in DeleteOutcomes :
         /\ Admin(u)
         /\ get_template(DB, tpl)
         /\ Store(delete_template(DB, tpl, outcome))
         /\ ret' = Call("template_delete", u, <<tpl, outcome>>,
                        IF outcome = "refused" THEN 500 ELSE 302)
    /\ UNCHANGED now

Edited == {s \in Ids(section) : section[s].updated_at # NoTime}

\* app.section_save: 404 without the section, 403 unless can_edit_section,
\* else update_section.  rv is the HTTP status.
SectionSave ==
    /\ \E u \in Ids(user), s \in Ids(section), content \in Contents :
         /\ LoggedIn(u)
         /\ (s \in Edited \/ Cardinality(Edited) < MaxEdited)
         /\ IF can_edit_section(DB, UserRow(DB, u), section[s])
            THEN /\ Store(update_section(DB, s, content, now))
                 /\ ret' = Call("section_save", u, <<s>>, 200)
            ELSE /\ Store(DB)
                 /\ ret' = Call("section_save", u, <<s>>, 403)
    /\ UNCHANGED now

\* app.meeting_lock (admin_required)
MeetingLock ==
    /\ \E u \in Ids(user), m \in Ids(meeting) :
         /\ Admin(u)
         /\ Store(lock_meeting(DB, m, u, now).D)
         /\ ret' = Call("meeting_lock", u, <<m>>, 302)
    /\ UNCHANGED now

\* app.meeting_unlock (admin_required)
MeetingUnlock ==
    /\ \E u \in Ids(user), m \in Ids(meeting) :
         /\ Admin(u)
         /\ Store(unlock_meeting(DB, m).D)
         /\ ret' = Call("meeting_unlock", u, <<m>>, 302)
    /\ UNCHANGED now

InitUsers ==
    << [display_name |-> "Ann", role |-> "admin", is_active |-> TRUE],
       [display_name |-> "Bob", role |-> "member", is_active |-> TRUE] >>

EmptyDB ==
    [user |-> InitUsers, department |-> <<>>, department_reporter |-> {},
     meeting |-> <<>>, section |-> <<>>, todo |-> {}, todo_seq |-> 0,
     meeting_template |-> <<>>, template_section |-> <<>>, search_index |-> {},
     meeting_attendance |-> {}]

InitWith(D) ==
    /\ user = D.user
    /\ department = D.department
    /\ department_reporter = D.department_reporter
    /\ meeting = D.meeting
    /\ section = D.section
    /\ todo = D.todo
    /\ todo_seq = D.todo_seq
    /\ meeting_template = D.meeting_template
    /\ template_section = D.template_section
    /\ search_index = D.search_index
    /\ meeting_attendance = D.meeting_attendance
    /\ now = 1
    /\ ret = Call("init", NoId, <<>>, NoId)
    /\ admin_ops = 0
    /\ login_attempts = [ip \in {} |-> <<>>]
    /\ failed_logins = [ip \in IPs |-> <<>>]
    /\ session = NoSession
    /\ request = NoRequest
    /\ schema_version = {}
    /\ executed = [v \in Migrations |-> [k \in 1..ScriptLen |-> 0]]
    /\ in_flight = [u \in Ids(D.user) |-> NoSave]

\* ------------------------------------------------------------- todo routes

TodoTexts == {"call"}
TodoPriorities == {"high", "ULTRA"}

\* app.todo_add: 404 without the section, 403 when its meeting is locked, else
\* add_todo with the stripped, non-empty text.
TodoAdd ==
    /\ todo_seq < MaxTodos
    /\ \E u \in Ids(user), s \in Ids(section), text \in TodoTexts,
          priority \in TodoPriorities :
         /\ LoggedIn(u)
         /\ IF is_meeting_locked(DB, section[s].meeting_id)
            THEN /\ Store(DB)
                 /\ ret' = Call("todo_add", u, <<s, priority>>, 403)
            ELSE /\ Store(add_todo(DB, s, text, NoId, NoDate, priority, u, now))
                 /\ ret' = Call("todo_add", u, <<s, priority>>, 200)
    /\ UNCHANGED now

\* app.todo_toggle: 404 without the todo, else toggle_todo.
TodoToggle ==
    /\ \E u \in Ids(user), id \in TodoIds(DB) :
         /\ LoggedIn(u)
         /\ Store(toggle_todo(DB, id, now))
         /\ ret' = Call("todo_toggle", u, <<id>>, 200)
    /\ UNCHANGED now

\* app.todo_delete: 404 without the todo, else delete_todo.
TodoDelete ==
    /\ \E u \in Ids(user), id \in TodoIds(DB) :
         /\ LoggedIn(u)
         /\ Store(delete_todo(DB, id))
         /\ ret' = Call("todo_delete", u, <<id>>, 200)
    /\ UNCHANGED now

\* app.todo_carry_forward: the target is get_latest_meeting; 400 when there is
\* none or carry_forward_todo gives None.
TodoCarryForward ==
    /\ todo_seq < MaxTodos
    /\ \E u \in Ids(user), id \in TodoIds(DB) :
         /\ LoggedIn(u)
         /\ LET latest == get_latest_meeting(DB)
                r == IF latest = NoId THEN [D |-> DB, rv |-> NoId]
                     ELSE carry_forward_todo(DB, id, latest, now)
            IN  /\ Store(r.D)
                /\ ret' = Call("todo_carry_forward", u, <<id, latest>>, r.rv)
    /\ UNCHANGED now

\* datetime.utcnow() read by a later request
Tick ==
    /\ now < MaxClock
    /\ now' = now + 1
    /\ ret' = Call("tick", NoId, <<>>, NoId)
    /\ UNCHANGED <<user, department, department_reporter, meeting, section, todo,
                   todo_seq, meeting_template, template_section, search_index,
                   meeting_attendance>>

\* ------------------------------------------------------------- login

\* A get_current_user that does not look at is_active.
get_current_user_inactive_too(D, sess) ==
    IF sess.user_id \in Ids(D.user) THEN sess.user_id ELSE NoId

\* auth.get_current_user: the session's user if it exists and is active.
get_current_user(D, sess) ==
    IF sess.user_id \in Ids(D.user) /\ D.user[sess.user_id].is_active
    THEN sess.user_id ELSE NoId

\* db.authenticate_user for a username and password that are those of user
\* cred, or of nobody (NoId): the user if active.
authenticate_user(D, cred) ==
    IF cred \in Ids(D.user) /\ D.user[cred].is_active THEN cred ELSE NoId

\* The pruning of auth._is_rate_limited: the attempts inside the window.
recent(attempts, t) == SelectSeq(attempts, LAMBDA a : t - a < RATE_WINDOW)

\* _login_attempts[ip] of the defaultdict: an address without a key reads as [].
attempts_of(attempts, ip) ==
    IF ip \in DOMAIN attempts THEN attempts[ip] ELSE <<>>

\* The sweep's stale keys, judged by the oldest attempt of each list.
stale_keys_oldest(attempts, t) ==
    {k \in DOMAIN attempts :
        attempts[k] = <<>> \/ t - attempts[k][1] > RATE_WINDOW}

\* The stale keys of the sweep: not v or now - v[-1] > RATE_WINDOW.
stale_keys(attempts, t) ==
    {k \in DOMAIN attempts :
        attempts[k] = <<>> \/ t - attempts[k][Len(attempts[k])] > RATE_WINDOW}

\* auth._is_rate_limited: the address's list is pruned to the window (which
\* gives the address a key); above SweepAbove keys the stale keys are deleted;
\* the answer reads the address's list again, which gives it a key again.
is_rate_limited(attempts, ip, t) ==
    LET pruned == [k \in DOMAIN attempts \cup {ip} |->
                      IF k = ip THEN recent(attempts_of(attempts, ip), t)
                      ELSE attempts[k]]
        swept == IF Cardinality(DOMAIN pruned) > SweepAbove
                 THEN [k \in DOMAIN pruned \ stale_keys(pruned, t) |-> pruned[k]]
                 ELSE pruned
        read == [k \in DOMAIN swept \cup {ip} |-> attempts_of(swept, k)]
    IN  [attempts |-> read, rv |-> Len(read[ip]) >= RATE_LIMIT]

\* auth.validate_csrf: TRUE when the request goes on, FALSE when it aborts
\* with 403.  The token is the form field _csrf_token or, when that is
\* missing or empty, the header X-CSRF-Token.
validate_csrf(method, endpoint, token, sess) ==
    \/ method \in {"GET", "HEAD", "OPTIONS"}
    \/ endpoint \in {"auth.login", "auth.logout"}
    \/ token # NoToken /\ token = sess.csrf_token

\* app.csrf_check, the before_request hook.
csrf_check(method, endpoint, token, sess) ==
    endpoint = "static" \/ validate_csrf(method, endpoint, token, sess)

\* POST /login while users exist: csrf_check, auth.login, auth._handle_login.
LoginPost ==
    /\ Len(user) > 0
    /\ \E ip \in IPs, tok \in {NoToken, session.csrf_token},
          cred \in Ids(user) \cup {NoId} :
         /\ csrf_check("POST", "auth.login", tok, session)
         /\ request' = [method |-> "POST", endpoint |-> "auth.login",
                        token |-> tok, ip |-> ip]
         /\ IF get_current_user(DB, session) # NoId
            THEN /\ ret' = Call("login", session.user_id, <<ip, "home">>, 302)
                 /\ UNCHANGED <<login_attempts, failed_logins, session>>
            ELSE LET limited == is_rate_limited(login_attempts, ip, now)
                     u == authenticate_user(DB, cred)
                 IN  IF limited.rv
                     THEN /\ login_attempts' = limited.attempts
                          /\ ret' = Call("login", NoId, <<ip, "limited">>, 429)
                          /\ UNCHANGED <<failed_logins, session>>
                     ELSE /\ login_attempts' =
                                [limited.attempts EXCEPT ![ip] = Append(@, now)]
                          /\ IF u = NoId
                             THEN /\ failed_logins' =
                                        [failed_logins EXCEPT
                                            ![ip] = Append(recent(@, now), now)]
                                  /\ ret' = Call("login", NoId, <<ip, "evaluated">>, 401)
                                  /\ UNCHANGED session
                             ELSE /\ session' = [session EXCEPT !.user_id = u]
                                  /\ ret' = Call("login", u, <<ip, "evaluated">>, 302)
                                  /\ UNCHANGED failed_logins
    /\ UNCHANGED <<user, department, department_reporter, meeting, section, todo,
                   todo_seq, meeting_template, template_section, search_index,
                   meeting_attendance, now>>

\* POST /logout: csrf_check, then auth.logout clears the session.
LogoutPost ==
    /\ \E ip \in IPs, tok \in {NoToken, session.csrf_token} :
         /\ csrf_check("POST", "auth.logout", tok, session)
         /\ request' = [method |-> "POST", endpoint |-> "auth.logout",
                        token |-> tok, ip |-> ip]
    /\ session' = NoSession
    /\ ret' = Call("logout", session.user_id, <<>>, 302)
    /\ UNCHANGED <<user, department, department_reporter, meeting, section, todo,
                   todo_seq, meeting_template, template_section, search_index,
                   meeting_attendance, now,
                   login_attempts, failed_logins>>

\* GET of a page: its template calls auth.generate_csrf_token, which gives
\* the session a new random token if it has none.
PageGet ==
    /\ \E ip \in IPs, t \in Tokens :
         /\ csrf_check("GET", "index", NoToken, session)
         /\ request' = [method |-> "GET", endpoint |-> "index",
                        token |-> NoToken, ip |-> ip]
         /\ session' = IF session.csrf_token = NoToken
                       THEN [session EXCEPT !.csrf_token = t]
                       ELSE session
    /\ ret' = Call("index", get_current_user(DB, session), <<>>, 200)
    /\ UNCHANGED <<user, department, department_reporter, meeting, section, todo,
                   todo_seq, meeting_template, template_section, search_index,
                   meeting_attendance, now,
                   login_attempts, failed_logins>>

PostEndpoints == {"auth.login", "auth.logout", "meeting_lock", "meeting_unlock"}
FormTokens == Tokens \cup {NoToken}

\* A POST that csrf_check aborts with 403: no handler runs.
CsrfRejected ==
    /\ \E ip \in IPs, endpoint \in PostEndpoints, tok \in FormTokens :
         /\ ~csrf_check("POST", endpoint, tok, session)
         /\ request' = [method |-> "POST", endpoint |-> endpoint,
                        token |-> tok, ip |-> ip]
    /\ ret' = Call("csrf_check", NoId, <<>>, 403)
    /\ UNCHANGED <<user, department, department_reporter, meeting, section, todo,
                   todo_seq, meeting_template, template_section, search_index,
                   meeting_attendance, now,
                   login_attempts, failed_logins, session>>

\* POST /meeting/<id>/lock by the session's user: csrf_check, then
\* app.meeting_lock.
MeetingLockPost ==
    /\ \E ip \in IPs, tok \in FormTokens :
         /\ csrf_check("POST", "meeting_lock", tok, session)
         /\ request' = [method |-> "POST", endpoint |-> "meeting_lock",
                        token |-> tok, ip |-> ip]
    /\ MeetingLock
    /\ ret'.user = get_current_user(DB, session)
    /\ UNCHANGED <<login_attempts, failed_logins, session>>

\* POST /meeting/<id>/unlock by the session's user: csrf_check, then
\* app.meeting_unlock.
MeetingUnlockPost ==
    /\ \E ip \in IPs, tok \in FormTokens :
         /\ csrf_check("POST", "meeting_unlock", tok, session)
         /\ request' = [method |-> "POST", endpoint |-> "meeting_unlock",
                        token |-> tok, ip |-> ip]
    /\ MeetingUnlock
    /\ ret'.user = get_current_user(DB, session)
    /\ UNCHANGED <<login_attempts, failed_logins, session>>

\* The rate window passes.
Wait ==
    /\ now + WaitStep <= MaxLoginClock
    /\ now' = now + WaitStep
    /\ ret' = Call("wait", NoId, <<>>, NoId)
    /\ UNCHANGED <<user, department, department_reporter, meeting, section, todo,
                   todo_seq, meeting_template, template_section, search_index,
                   meeting_attendance>>

\* Time passes up to the next of the moments 59, 60 and 61 seconds after
\* the first: just inside the window, just outside it, and stale.
WaitSweep ==
    /\ \E t \in {RATE_WINDOW, RATE_WINDOW + 1, MaxSweepClock} :
         /\ now < t
         /\ \A q \in {RATE_WINDOW, RATE_WINDOW + 1, MaxSweepClock} : now < q => t <= q
         /\ now' = t
    /\ ret' = Call("wait", NoId, <<>>, NoId)
    /\ UNCHANGED <<user, department, department_reporter, meeting, section, todo,
                   todo_seq, meeting_template, template_section, search_index,
                   meeting_attendance>>

\* ------------------------------------------------------------- gated routes

\* The sessions browsers hold: every user has logged in at some time, and a
\* browser may hold no user.  Each has been given a token.
HeldSessions == {[user_id |-> u, csrf_token |-> "t1"] : u \in Ids(user) \cup {NoId}}

\* auth.login_required: TRUE when the view runs, FALSE when the request is
\* redirected to the login page.
login_required(D, sess) == get_current_user(D, sess) # NoId

\* A gate that lets every logged-in user through.
admin_required_any_role(D, sess) ==
    IF get_current_user(D, sess) = NoId THEN 302 ELSE 200

\* auth.admin_required: 302 (to the login page) without a current user, 403
\* for a role other than admin, 200 when the view runs.
admin_required(D, sess) ==
    LET cur == get_current_user(D, sess)
    IN  IF cur = NoId THEN 302
        ELSE IF D.user[cur].role # "admin" THEN 403
        ELSE 200

\* db.set_attendance: insert, or update the status of the row there is; a
\* status outside present, absent, remote is stored as present.
set_attendance(D, meeting_id, user_id, status) ==
    [D EXCEPT !.meeting_attendance =
        {a \in @ : ~(a.meeting_id = meeting_id /\ a.user_id = user_id)}
        \cup {[meeting_id |-> meeting_id, user_id |-> user_id,
                status |-> IF status \in {"present", "absent", "remote"}
                           THEN status ELSE "present"]}]

\* db.remove_attendance
remove_attendance(D, meeting_id, user_id) ==
    [D EXCEPT !.meeting_attendance =
        {a \in @ : ~(a.meeting_id = meeting_id /\ a.user_id = user_id)}]

\* The request of a browser holding sess, with the session's token.
Sent(method, endpoint, sess) ==
    /\ csrf_check(method, endpoint, sess.csrf_token, sess)
    /\ request' = [method |-> method, endpoint |-> endpoint,
                   token |-> sess.csrf_token, ip |-> "ip1"]

\* POST /meeting/<id>/lock: login_required, admin_required, app.meeting_lock.
\* ret.args is the meeting and where the answer redirects to, if it does.
MeetingLockRequest ==
    /\ \E sess \in HeldSessions, m \in 1..(Len(meeting) + 1) :
         /\ Sent("POST", "meeting_lock", sess)
         /\ IF ~login_required(DB, sess)
            THEN Store(DB) /\ ret' = Call("meeting_lock", sess.user_id, <<m, "auth.login">>, 302)
            ELSE IF admin_required(DB, sess) # 200
            THEN Store(DB) /\ ret' = Call("meeting_lock", sess.user_id, <<m, "">>,
                                          admin_required(DB, sess))
            ELSE IF m \notin Ids(meeting)
            THEN Store(DB) /\ ret' = Call("meeting_lock", sess.user_id, <<m, "">>, 404)
            ELSE /\ Store(lock_meeting(DB, m, get_current_user(DB, sess), now).D)
                 /\ ret' = Call("meeting_lock", sess.user_id, <<m, "meeting_view">>, 302)
    /\ UNCHANGED <<now, login_attempts, failed_logins, session>>

\* POST /meeting/<id>/unlock: login_required, admin_required,
\* app.meeting_unlock.
MeetingUnlockRequest ==
    /\ \E sess \in HeldSessions, m \in 1..(Len(meeting) + 1) :
         /\ Sent("POST", "meeting_unlock", sess)
         /\ IF ~login_required(DB, sess)
            THEN Store(DB) /\ ret' = Call("meeting_unlock", sess.user_id, <<m, "auth.login">>, 302)
            ELSE IF admin_required(DB, sess) # 200
            THEN Store(DB) /\ ret' = Call("meeting_unlock", sess.user_id, <<m, "">>,
                                          admin_required(DB, sess))
            ELSE IF m \notin Ids(meeting)
            THEN Store(DB) /\ ret' = Call("meeting_unlock", sess.user_id, <<m, "">>, 404)
            ELSE /\ Store(unlock_meeting(DB, m).D)
                 /\ ret' = Call("meeting_unlock", sess.user_id, <<m, "meeting_view">>, 302)
    /\ UNCHANGED <<now, login_attempts, failed_logins, session>>

\* The JSON body of an attendance update: status none removes the row, a
\* missing user_id is a bad request.
AttendanceStatuses == {"remote", "late", "none"}
AttendanceUsers == {NoId, 2}

\* PUT /meeting/<id>/attendance: login_required, then
\* app.meeting_attendance_update with its own check of the role.
AttendanceUpdate ==
    /\ \E sess \in HeldSessions, m \in 1..(Len(meeting) + 1),
          uid \in AttendanceUsers, status \in AttendanceStatuses :
         /\ Sent("PUT", "meeting_attendance_update", sess)
         /\ LET cur == get_current_user(DB, sess)
                answer(D, location, rv) ==
                    /\ Store(D)
                    /\ ret' = Call("meeting_attendance_update", sess.user_id,
                                   <<m, location>>, rv)
            IN  IF ~login_required(DB, sess) THEN answer(DB, "auth.login", 302)
                ELSE IF m \notin Ids(meeting) THEN answer(DB, "", 404)
                ELSE IF user[cur].role # "admin" THEN answer(DB, "", 403)
                ELSE IF uid = NoId THEN answer(DB, "", 400)
                ELSE IF status = "none"
                THEN answer(remove_attendance(DB, m, uid), "", 200)
                ELSE answer(set_attendance(DB, m, uid, status), "", 200)
    /\ UNCHANGED <<now, login_attempts, failed_logins, session>>

\* The role field of the user form; a value other than admin and member
\* stands for the role the user has.
FormRoles == {"admin", "member", "owner"}

\* A user_edit without the two checks of the user's own row.
user_edit_own_row_too(D, cur, e, role, is_active) ==
    IF e \notin Ids(D.user) THEN [D |-> D, rv |-> 404]
    ELSE LET new_role == IF role \in {"admin", "member"} THEN role ELSE D.user[e].role
         IN  [D |-> update_user(D, e, D.user[e].display_name, new_role, is_active),
              rv |-> 302]

\* admin.user_edit after require_admin: the POST of the form by the current
\* user cur for user e, the display name as it is.  rv is 404, 200 (the
\* form again, with a message) or 302.
user_edit(D, cur, e, role, is_active) ==
    IF e \notin Ids(D.user) THEN [D |-> D, rv |-> 404]
    ELSE LET new_role == IF role \in {"admin", "member"} THEN role ELSE D.user[e].role
         IN  IF e = cur /\ ~is_active THEN [D |-> D, rv |-> 200]
             ELSE IF e = cur /\ new_role # "admin" THEN [D |-> D, rv |-> 200]
             ELSE [D |-> update_user(D, e, D.user[e].display_name, new_role, is_active),
                   rv |-> 302]

\* POST /admin/users/<id>/edit: admin.require_admin, then admin.user_edit.
\* ret.args is the user, where the answer redirects to, and the role and
\* is_active fields of the form.
UserEditPost ==
    /\ \E sess \in HeldSessions, e \in 1..(Len(user) + 1), role \in FormRoles,
          is_active \in BOOLEAN :
         /\ Sent("POST", "admin.user_edit", sess)
         /\ IF admin_required(DB, sess) # 200
            THEN /\ Store(DB)
                 /\ ret' = Call("user_edit", sess.user_id,
                                <<e, IF admin_required(DB, sess) = 302
                                     THEN "auth.login" ELSE "", role, is_active>>,
                                admin_required(DB, sess))
            ELSE LET r == user_edit(DB, get_current_user(DB, sess), e, role, is_active)
                 IN  /\ Store(r.D)
                     /\ ret' = Call("user_edit", sess.user_id,
                                    <<e, IF r.rv = 302 THEN "admin.users_list" ELSE "",
                                      role, is_active>>,
                                    r.rv)
    /\ UNCHANGED <<now, login_attempts, failed_logins, session>>

\* PUT /todo/<id>/toggle: login_required, then app.todo_toggle.
TodoToggleRequest ==
    /\ \E sess \in HeldSessions, id \in 1..(todo_seq + 1) :
         /\ Sent("PUT", "todo_toggle", sess)
         /\ IF ~login_required(DB, sess)
            THEN Store(DB) /\ ret' = Call("todo_toggle", sess.user_id, <<id, "auth.login">>, 302)
            ELSE IF id \notin TodoIds(DB)
            THEN Store(DB) /\ ret' = Call("todo_toggle", sess.user_id, <<id, "">>, 404)
            ELSE /\ Store(toggle_todo(DB, id, now))
                 /\ ret' = Call("todo_toggle", sess.user_id, <<id, "">>, 200)
    /\ UNCHANGED <<now, login_attempts, failed_logins, session>>

\* ------------------------------------------------------------- requests in flight

\* The sections and contents of the saves that run side by side.
SaveSections == {1, 4}
SaveContents == {"x", "y"}

\* The first half of app.section_save, up to its permission check: the
\* request is answered 403, or goes on to the write.
SaveBegin ==
    /\ \E u \in Ids(user), s \in SaveSections, content \in SaveContents :
         /\ LoggedIn(u)
         /\ in_flight[u] = NoSave
         /\ s \in Ids(section)
         /\ IF can_edit_section(DB, UserRow(DB, u), section[s])
            THEN /\ in_flight' = [in_flight EXCEPT
                                    ![u] = [section |-> s, content |-> content]]
                 /\ ret' = Call("can_edit_section", u, <<s, content>>, 200)
            ELSE /\ UNCHANGED in_flight
                 /\ ret' = Call("section_save", u, <<s, content>>, 403)
    /\ Store(DB)
    /\ UNCHANGED now

\* The second half of app.section_save: db.update_section and the answer.
\* ret.args is the section, the content written and the content replaced.
SaveCommit ==
    /\ \E u \in Ids(user) :
         /\ in_flight[u] # NoSave
         /\ LET s == in_flight[u].section
                c == in_flight[u].content
            IN  /\ Store(update_section(DB, s, c, now))
                /\ ret' = Call("section_save", u, <<s, c, section[s].content>>, 200)
         /\ in_flight' = [in_flight EXCEPT ![u] = NoSave]
    /\ UNCHANGED now

\* ------------------------------------------------------------- migrations

\* Where a run fails: nowhere, or in migration v at statement k of its
\* script, or (k = ScriptLen + 1) at the INSERT into schema_version.
NoFailure == <<0, 0>>
Failures == {NoFailure} \cup (Migrations \X (1..(ScriptLen + 1)))

\* The loop of db.run_migrations over the files left, st being the versions
\* recorded, the statements run and the versions begun in this call.  A file
\* whose version was in schema_version when the call began is skipped.
\* executescript commits each statement as it runs, so the statements before
\* a failing one stay executed; the rollback undoes only the INSERT.  The
\* first failure raises and ends the loop.
RECURSIVE migrate_from(_, _, _, _)
migrate_from(files, applied, st, fail) ==
    IF files = <<>> THEN [st EXCEPT !.rv = "ok"]
    ELSE LET v == version(Head(files))
         IN  IF v \in applied THEN migrate_from(Tail(files), applied, st, fail)
             ELSE IF fail[1] = v
             THEN [st EXCEPT
                     !.executed[v] = [k \in 1..ScriptLen |->
                                        IF k < fail[2] THEN @[k] + 1 ELSE @[k]],
                     !.order = Append(@, v),
                     !.rv = "RuntimeError"]
             ELSE migrate_from(Tail(files), applied,
                    [st EXCEPT
                       !.schema_version = @ \cup {v},
                       !.executed[v] = [k \in 1..ScriptLen |-> @[k] + 1],
                       !.order = Append(@, v)],
                    fail)

\* db.run_migrations: the files of the directory in sorted() order.
run_migrations(recorded, ex, fail) ==
    migrate_from(sorted(MigrationFiles), recorded,
                 [schema_version |-> recorded, executed |-> ex,
                  order |-> <<>>, rv |-> ""],
                 fail)

\* A call of db.run_migrations, at startup or from a test, with the failure
\* it meets if it gets that far.
RunMigrations ==
    /\ \A v \in Migrations, k \in 1..ScriptLen : executed[v][k] < MaxExecuted
    /\ \E fail \in Failures :
         LET r == run_migrations(schema_version, executed, fail)
         IN  /\ schema_version' = r.schema_version
             /\ executed' = r.executed
             /\ ret' = Call("run_migrations", NoId, <<fail, r.order>>, r.rv)
    /\ UNCHANGED <<user, department, department_reporter, meeting, section, todo,
                   todo_seq, meeting_template, template_section, search_index,
                   meeting_attendance, now>>

\* ------------------------------------------------------------- specifications

\* The database after first-run setup of the admin, and one member added.
Init == InitWith(EmptyDB)

Next ==
    \/ (DepartmentCreate /\ UNCHANGED idle)
    \/ (DepartmentEdit /\ UNCHANGED idle)
    \/ (DepartmentsReorder /\ UNCHANGED idle)
    \/ (UserEdit /\ UNCHANGED idle)
    \/ (MeetingNew /\ Len(meeting) < MaxSnapshots /\ UNCHANGED idle)

\* The department and user admin forms around the creation of a meeting.
Spec == Init /\ [][Next]_vars

\* A database the admin forms and two meeting creations lead to: meeting 1 with
\* sections Eng (department 1, reporter Bob) and QA (department 2); then
\* department 1 renamed Ops and left without reporters, department 2 archived,
\* a new department 3 named Eng with Bob as backup; meeting 2 with sections
\* Ops (department 1) and Eng (department 3), neither with a reporter.
SeedDB ==
    LET D1 == create_department(EmptyDB, "Eng", FALSE).D
        D2 == create_department(D1, "QA", FALSE).D
        D3 == set_department_reporters(D2, 1, {<<2, TRUE>>})
        D4 == create_meeting(D3, 1, NoDate, 1).D
        D5 == set_department_reporters(
                  update_department(D4, 1, "Ops", FALSE, FALSE).D, 1, {})
        D6 == update_department(D5, 2, "QA", FALSE, TRUE).D
        D7 == create_department(D6, "Eng", TRUE).D
        D8 == set_department_reporters(D7, 3, {<<2, FALSE>>})
    IN  create_meeting(D8, 2, NoDate, 1).D

InitTodo == InitWith(SeedDB)

NextLock ==
    \/ (TodoAdd /\ UNCHANGED idle)
    \/ (TodoToggle /\ UNCHANGED idle)
    \/ (TodoDelete /\ UNCHANGED idle)
    \/ (TodoCarryForward /\ UNCHANGED idle)
    \/ (SectionSave /\ UNCHANGED idle)
    \/ (MeetingLock /\ UNCHANGED idle)
    \/ (MeetingUnlock /\ UNCHANGED idle)

\* Todo, section-save, lock and unlock requests on the seeded meetings.
SpecLock == InitTodo /\ [][NextLock]_vars

NextTodo ==
    \/ (TodoAdd /\ UNCHANGED idle)
    \/ (TodoToggle /\ UNCHANGED idle)
    \/ (TodoDelete /\ UNCHANGED idle)
    \/ (TodoCarryForward /\ UNCHANGED idle)
    \/ (Tick /\ UNCHANGED idle)

\* Todo requests on the seeded meetings as time passes.
SpecTodo == InitTodo /\ [][NextTodo]_vars

\* The seeded database after department 2 was renamed Old, a department 4
\* named QA created and a third meeting made: its sections are Ops
\* (department 1), Eng (department 3) and QA (department 4), so that section 1
\* (Eng, department 1) has its department in Ops and its name in Eng, and
\* section 2 (QA, department 2) has no department match but its name in QA.
CarryDB ==
    LET D1 == update_department(SeedDB, 2, "Old", FALSE, TRUE).D
        D2 == create_department(D1, "QA", FALSE).D
    IN  create_meeting(D2, 3, NoDate, 1).D

InitCarry == InitWith(CarryDB)

\* Todo requests with a latest meeting that matches by department and by name.
SpecCarry == InitCarry /\ [][NextTodo]_vars

\* Two departments, Eng with Bob as primary reporter and the special QA;
\* no meeting and no template yet.
CreateDB ==
    LET D1 == create_department(EmptyDB, "Eng", FALSE).D
        D2 == create_department(D1, "QA", TRUE).D
    IN  set_department_reporters(D2, 1, {<<2, TRUE>>})

InitCreate == InitWith(CreateDB)

NextCreate ==
    \/ (MeetingNew /\ UNCHANGED idle)
    \/ (TemplateCreate /\ UNCHANGED idle)
    \/ (TemplateSaveFromMeeting /\ UNCHANGED idle)
    \/ (SectionSave /\ UNCHANGED idle)
    \/ (DepartmentEdit /\ admin_ops < MaxAdminOps /\ admin_ops' = admin_ops + 1 /\ UNCHANGED <<web, schema, in_flight>>)

\* The three ways to create a meeting, with templates, saved content and a
\* bounded number of department edits in between.
SpecCreate == InitCreate /\ [][NextCreate]_vars

\* db.lock_meeting called directly, as the tests do: any meeting id, existing
\* or one past the last, and any user id.
LockMeetingCall ==
    /\ \E u \in Ids(user), m \in 1..(Len(meeting) + 1) :
         LET r == lock_meeting(DB, m, u, now)
         IN  /\ Store(r.D)
             /\ ret' = Call("lock_meeting", u, <<m>>, r.rv)
    /\ UNCHANGED now

\* db.unlock_meeting called directly.
UnlockMeetingCall ==
    /\ \E m \in 1..(Len(meeting) + 1) :
         LET r == unlock_meeting(DB, m)
         IN  /\ Store(r.D)
             /\ ret' = Call("unlock_meeting", NoId, <<m>>, r.rv)
    /\ UNCHANGED now

NextLife ==
    \/ (LockMeetingCall /\ UNCHANGED idle)
    \/ (UnlockMeetingCall /\ UNCHANGED idle)
    \/ (SectionSave /\ UNCHANGED idle)
    \/ (Tick /\ UNCHANGED idle)

\* Locks and unlocks of the seeded meetings as time passes, with section
\* saves in between.
SpecLife == InitTodo /\ [][NextLife]_vars

\* db.reorder_departments called directly with any list of distinct
\* department ids, complete or not.
ReorderDepartmentsCall ==
    /\ \E order \in Orderings(Ids(department)) :
         /\ Store(reorder_departments(DB, order))
         /\ ret' = Call("reorder_departments", NoId, order, NoId)
    /\ UNCHANGED now

NextReorder ==
    \/ (ReorderDepartmentsCall /\ UNCHANGED idle)
    \/ (DepartmentEdit /\ admin_ops < MaxAdminOps /\ admin_ops' = admin_ops + 1 /\ UNCHANGED <<web, schema, in_flight>>)

\* Reorderings of the three seeded departments, one of them archived, around
\* at most MaxAdminOps edits of a department.
SpecReorder == InitTodo /\ [][NextReorder]_vars

\* Entry lists of set_department_reporters: (user_id, is_primary) tuples, a
\* user at most once, any number of them primary.
ReporterEntries ==
    {E \in SUBSET (Ids(user) \X BOOLEAN) : \A e, g \in E : e[1] = g[1] => e = g}

\* db.set_department_reporters called directly, as test_db.py and seed_demo.py do.
SetDepartmentReportersCall ==
    /\ \E d \in Ids(department), E \in ReporterEntries :
         /\ Store(set_department_reporters(DB, d, E))
         /\ ret' = Call("set_department_reporters", NoId, <<d, E>>, NoId)
    /\ UNCHANGED now

NextReporters ==
    \/ (DepartmentCreate /\ UNCHANGED idle)
    \/ (DepartmentEdit /\ UNCHANGED idle)
    \/ (SetDepartmentReportersCall /\ UNCHANGED idle)

\* Departments created and edited by an admin, and reporters saved directly.
SpecReporters == Init /\ [][NextReporters]_vars

NextLogin ==
    \/ (LoginPost /\ UNCHANGED <<admin_ops, schema, in_flight>>)
    \/ (LogoutPost /\ UNCHANGED <<admin_ops, schema, in_flight>>)
    \/ (Wait /\ UNCHANGED idle)

\* Logins and logouts of one browser from two addresses.
SpecLogin == Init /\ [][NextLogin]_vars

NextSweep ==
    \/ (LoginPost /\ ret'.rv # 302 /\ UNCHANGED <<admin_ops, schema, in_flight>>)
    \/ (WaitSweep /\ UNCHANGED idle)

\* Logins with wrong credentials from two addresses around the end of the
\* window, the sweep running whenever both addresses are tracked.
SpecSweep == Init /\ [][NextSweep]_vars

NextCsrf ==
    \/ (PageGet /\ request'.ip = "ip1" /\ UNCHANGED <<admin_ops, schema, in_flight>>)
    \/ (LoginPost /\ request'.ip = "ip1" /\ ret'.rv # 401
            /\ UNCHANGED <<admin_ops, schema, in_flight>>)
    \/ (LogoutPost /\ request'.ip = "ip1" /\ UNCHANGED <<admin_ops, schema, in_flight>>)
    \/ (CsrfRejected /\ request'.ip = "ip1" /\ UNCHANGED <<admin_ops, schema, in_flight>>)
    \/ (MeetingLockPost /\ request'.ip = "ip1" /\ UNCHANGED <<admin_ops, schema, in_flight>>)
    \/ (MeetingUnlockPost /\ request'.ip = "ip1" /\ UNCHANGED <<admin_ops, schema, in_flight>>)

\* One browser at one address, with correct credentials: pages, logins,
\* logouts and the locking of the two seeded meetings.
SpecCsrf == InitTodo /\ [][NextCsrf]_vars

NextMigrate ==
    \/ (RunMigrations /\ UNCHANGED <<admin_ops, web, in_flight>>)

\* Calls of run_migrations on a database file that starts without versions.
SpecMigrate == Init /\ [][NextMigrate]_vars

\* The seeded database with a todo in the first section.
UsersDB == add_todo(SeedDB, 1, "call", NoId, NoDate, "normal", 1, 1)

InitGated == InitWith(UsersDB)

NextGated ==
    \/ (MeetingLockRequest /\ UNCHANGED <<admin_ops, schema, in_flight>>)
    \/ (MeetingUnlockRequest /\ UNCHANGED <<admin_ops, schema, in_flight>>)
    \/ (AttendanceUpdate /\ UNCHANGED <<admin_ops, schema, in_flight>>)
    \/ (UserEditPost /\ admin_ops < MaxAdminOps /\ admin_ops' = admin_ops + 1
            /\ UNCHANGED <<schema, in_flight>>)

\* Requests to the admin-only routes from the browsers of every user, at
\* most MaxAdminOps of them edits of a user.
SpecGated == InitGated /\ [][NextGated]_vars

NextActive ==
    \/ (UserEditPost /\ UNCHANGED <<admin_ops, schema, in_flight>>)
    \/ (TodoToggleRequest /\ UNCHANGED <<admin_ops, schema, in_flight>>)
    \/ (LoginPost /\ request'.ip = "ip1" /\ UNCHANGED <<admin_ops, schema, in_flight>>)
    \/ (LogoutPost /\ request'.ip = "ip1" /\ UNCHANGED <<admin_ops, schema, in_flight>>)

\* Users deactivated and reactivated, around logins and requests to a
\* login-only and an admin-only route from the browsers of every user.
SpecActive == InitGated /\ [][NextActive]_vars

NextRace ==
    \/ (SaveBegin /\ UNCHANGED <<admin_ops, web, schema>>)
    \/ (SaveCommit /\ UNCHANGED <<admin_ops, web, schema>>)
    \/ (MeetingLock /\ UNCHANGED idle)
    \/ (MeetingUnlock /\ UNCHANGED idle)

\* Section saves of two users whose checks and writes interleave with each
\* other and with the locking of the meetings.
SpecRace == InitTodo /\ [][NextRace]_vars

\* ------------------------------------------------------------- properties

\* One department, Eng with Bob as primary reporter, the meeting of date 1
\* made from it, and a todo in its first section.
FrameDB ==
    LET D1 == create_department(EmptyDB, "Eng", FALSE).D
        D2 == set_department_reporters(D1, 1, {<<2, TRUE>>})
        D3 == create_meeting(D2, 1, NoDate, 1).D
    IN  add_todo(D3, 1, "call", NoId, NoDate, "normal", 1, 1)

InitFrame == InitWith(FrameDB)

\* One more request of a run of at most MaxFrameOps requests.
Counted ==
    /\ admin_ops < MaxFrameOps
    /\ admin_ops' = admin_ops + 1
    /\ UNCHANGED <<web, schema, in_flight>>

NextFrame ==
    \/ (DepartmentCreate /\ Counted)
    \/ (DepartmentEdit /\ Counted)
    \/ (DepartmentsReorder /\ Counted)
    \/ (UserEdit /\ Counted)
    \/ (TemplateCreate /\ Counted)
    \/ (TemplateEdit /\ Counted)
    \/ (TemplateDelete /\ Counted)
    \/ (TemplateSaveFromMeeting /\ Counted)
    \/ (MeetingNew /\ Counted)
    \/ (SectionSave /\ Counted)
    \/ (TodoAdd /\ Counted)
    \/ (TodoToggle /\ Counted)
    \/ (TodoDelete /\ Counted)
    \/ (TodoCarryForward /\ Counted)
    \/ (MeetingLock /\ Counted)
    \/ (MeetingUnlock /\ Counted)

\* Short runs of every admin, meeting, section and todo request on one meeting.
SpecFrame == InitFrame /\ [][NextFrame]_vars

\* The requests that write section content or todos.
ContentRequests ==
    {"section_save", "todo_add", "todo_toggle", "todo_delete", "todo_carry_forward"}

\* C1: while a meeting is locked, a section save, a todo add, toggle or delete,
\* or a carry-forward with that meeting as source or target, by any logged-in
\* user of either role, leaves the meeting's sections and the todos of its
\* sections unchanged.
C1_LockedMeetingUnchanged ==
    [][\A m \in Ids(meeting) :
          (is_meeting_locked(DB, m) /\ ret'.op \in ContentRequests)
          => /\ \A s \in SectionsOf(DB, m) :
                   s \in Ids(section') /\ section'[s] = section[s]
             /\ {t \in todo' : section'[t.section_id].meeting_id = m}
                = {t \in todo : section[t.section_id].meeting_id = m}]_vars

\* C2: can_edit_section(u, s) is true exactly when the meeting of s is not
\* locked and u is an admin, or s.reporter_id is u's id, or s has a
\* department_id for which u has a department_reporter row (primary or
\* backup); so it is false for every user on a locked meeting.
C2_CanEditSection ==
    \A u \in Ids(user), s \in Ids(section) :
        can_edit_section(DB, UserRow(DB, u), section[s])
        <=> /\ meeting[section[s].meeting_id].status # "locked"
            /\ \/ user[u].role = "admin"
               \/ section[s].reporter_id = u
               \/ /\ section[s].department_id # NoId
                  /\ \E r \in department_reporter :
                        /\ r.department_id = section[s].department_id
                        /\ r.user_id = u

\* A member who is not the section's reporter has saved it as a backup of its
\* department, while the other meeting is locked.
C2_Witness ==
    /\ ret.op = "section_save"
    /\ ret.rv = 200
    /\ user[ret.user].role = "member"
    /\ section[ret.args[1]].reporter_id # ret.user
    /\ \E m \in Ids(meeting) : is_meeting_locked(DB, m)

\* C3: a meeting_new request for a date that already has a meeting yields no
\* meeting id, whether blank, copying or from a template, and leaves every
\* meeting and section as it was; no two meetings ever share a date.
C3_DateTaken ==
    [][/\ (ret'.op = "meeting_new" /\ ret'.args[1] \in MeetingDates)
          => (ret'.rv = NoId /\ meeting' = meeting /\ section' = section)
       /\ \A i, j \in Ids(meeting') :
             meeting'[i].date = meeting'[j].date => i = j]_vars

\* A request naming both a template and a source to copy was refused for its
\* date, with a meeting and its sections in place.
C3_Witness ==
    /\ ret.op = "meeting_new"
    /\ ret.rv = NoId
    /\ ret.args[2] # NoDate
    /\ ret.args[3] # NoId
    /\ \E m \in Ids(meeting) : meeting[m].date = ret.args[1] /\ SectionsOf(DB, m) # {}

\* C4: a blank meeting for a new date gets exactly one section for each
\* department that is not archived and none for an archived one, with the
\* department's id, name, sort_order and is_special, empty content, and the
\* primary reporter's display name and id ("" and none without a primary);
\* the built-in default list is used only when there is no department at all.
C4_BlankFromDepartments ==
    [][(/\ ret'.op = "meeting_new"
        /\ ret'.rv # NoId
        /\ ret'.args[2] = NoDate
        /\ ret'.args[3] = NoId)
       => LET new == {s \in Ids(section') : section'[s].meeting_id = ret'.rv}
              act == {d \in Ids(department) : ~department[d].is_archived}
          IN  IF department = <<>>
              THEN {section'[s] : s \in new}
                   = {default_sections(ret'.rv)[k] : k \in 1..Len(DEFAULT_SECTIONS)}
              ELSE /\ Cardinality(new) = Cardinality(act)
                   /\ \A d \in act : \E s \in new :
                        LET prim == {r \in department_reporter :
                                        r.department_id = d /\ r.is_primary}
                        IN  /\ section'[s].department_id = d
                            /\ section'[s].name = department[d].name
                            /\ section'[s].sort_order = department[d].sort_order
                            /\ section'[s].is_special = department[d].is_special
                            /\ section'[s].content = ""
                            /\ IF prim = {}
                               THEN /\ section'[s].reporter = ""
                                    /\ section'[s].reporter_id = NoId
                               ELSE \E r \in prim :
                                      /\ section'[s].reporter_id = r.user_id
                                      /\ section'[s].reporter
                                         = user[r.user_id].display_name]_vars

\* The admin requests that change departments, their reporters or users.
AdminRequests ==
    {"department_create", "department_edit", "departments_reorder", "user_edit"}

\* C5: once a section exists, its reporter and reporter_id stay as they are
\* under set_department_reporters, a department rename, archive or reorder,
\* and a user edit.
C5_ReporterSnapshot ==
    [][ret'.op \in AdminRequests
       => \A s \in Ids(section) :
             /\ s \in Ids(section')
             /\ section'[s].reporter = section[s].reporter
             /\ section'[s].reporter_id = section[s].reporter_id]_vars

\* A user was renamed whose old name stands in a section, and the department
\* of that section no longer has that user as primary reporter.
C5_Witness ==
    /\ ret.op = "user_edit"
    /\ \E s \in Ids(section) :
          /\ section[s].reporter_id = ret.args[1]
          /\ section[s].reporter # user[ret.args[1]].display_name
          /\ primary_reporter(DB, section[s].department_id) # ret.args[1]

\* The fields create_meeting copies from a source section.
Copied(s) ==
    [name |-> s.name, reporter |-> s.reporter, sort_order |-> s.sort_order,
     is_special |-> s.is_special, content |-> s.content,
     department_id |-> s.department_id, reporter_id |-> s.reporter_id]

\* C6: a meeting created for a new date with copy_from naming an existing
\* meeting gets the source's sections one for one, each with the source's
\* name, reporter, sort_order, is_special, content, department_id and
\* reporter_id, whatever the department table holds now; the source's
\* sections stay as they were.
C6_CopyVerbatim ==
    [][(/\ ret'.op = "meeting_new"
        /\ ret'.rv # NoId
        /\ ret'.args[3] = NoId
        /\ ret'.args[2] \in MeetingDates)
       => LET prev == CHOOSE m \in Ids(meeting) : meeting[m].date = ret'.args[2]
              src == get_sections(DB, prev)
          IN  /\ Len(section') = Len(section) + Len(src)
              /\ \A k \in 1..Len(src) :
                    /\ section'[Len(section) + k].meeting_id = ret'.rv
                    /\ Copied(section'[Len(section) + k]) = Copied(section[src[k]])
              /\ \A s \in Ids(section) : section'[s] = section[s]]_vars

\* A copy was made that carries saved content, of a section whose department
\* has since been archived or renamed.
C6_Witness ==
    /\ ret.op = "meeting_new"
    /\ ret.rv # NoId
    /\ ret.args[2] # NoDate
    /\ ret.args[3] = NoId
    /\ \E s \in SectionsOf(DB, ret.rv) :
          /\ section[s].content = "x"
          /\ section[s].department_id # NoId
          /\ \/ department[section[s].department_id].is_archived
             \/ department[section[s].department_id].name # section[s].name

\* C7: a meeting created from a template gets, in the template's sort order,
\* one section for each template section whose department exists and is not
\* archived, with the department's current name and is_special, its current
\* primary reporter (name and id, or "" and none), and the template section's
\* default_content; the other template sections are skipped.
C7_FromTemplate ==
    [][(ret'.op = "meeting_new" /\ ret'.rv # NoId /\ ret'.args[3] # NoId)
       => LET rows == {i \in Ids(template_section) :
                          template_section[i].template_id = ret'.args[3]}
              live == {i \in rows :
                          /\ template_section[i].department_id \in Ids(department)
                          /\ ~department[template_section[i].department_id].is_archived}
              made == OrderBy(live, [i \in live |-> template_section[i].sort_order])
          IN  /\ Len(section') = Len(section) + Cardinality(live)
              /\ \A k \in 1..Len(made) :
                    LET new == section'[Len(section) + k]
                        d == template_section[made[k]].department_id
                        prim == {r \in department_reporter :
                                    r.department_id = d /\ r.is_primary}
                    IN  /\ new.meeting_id = ret'.rv
                        /\ new.department_id = d
                        /\ new.name = department[d].name
                        /\ new.is_special = department[d].is_special
                        /\ new.content = template_section[made[k]].default_content
                        /\ IF prim = {}
                           THEN new.reporter = "" /\ new.reporter_id = NoId
                           ELSE \E r \in prim :
                                   /\ new.reporter_id = r.user_id
                                   /\ new.reporter = user[r.user_id].display_name
              /\ \A s \in Ids(section) : section'[s] = section[s]]_vars

\* A meeting was made from a template one of whose departments is archived,
\* and a section of it took its content from the template.
C7_Witness ==
    /\ ret.op = "meeting_new"
    /\ ret.rv # NoId
    /\ ret.args[3] # NoId
    /\ \E i \in Ids(template_section) :
          /\ template_section[i].template_id = ret.args[3]
          /\ department[template_section[i].department_id].is_archived
    /\ \E s \in SectionsOf(DB, ret.rv) : section[s].content = "x"

\* C8 as stated: for every existing todo, two consecutive toggle_todo calls
\* bring back its original done and completed_at, and change no other field
\* and no other row.  The first call is the request made, the second one
\* follows it at the same or a later time.
C8_TwoToggles ==
    [][ret'.op = "todo_toggle"
       => \A t2 \in now'..MaxClock :
             toggle_todo(DB', ret'.args[1], t2) = DB]_vars

\* C8, amended: two consecutive toggle_todo calls bring back the original
\* done flag and change no other field and no other row; completed_at is
\* again empty for a todo that was open, and for a todo that was done it is
\* the time of the second call.
C8_TwoTogglesDone ==
    [][ret'.op = "todo_toggle"
       => \A t2 \in now'..MaxClock :
             LET was == TodoRow(DB, ret'.args[1])
                 back == [was EXCEPT !.completed_at =
                                        IF was.done THEN t2 ELSE NoTime]
             IN  toggle_todo(DB', ret'.args[1], t2)
                 = [DB EXCEPT !.todo = (@ \ {was}) \cup {back}]]_vars

\* A todo completed earlier has just been reopened by a toggle, with another
\* todo beside it.
C8_Witness ==
    /\ ret.op = "todo_toggle"
    /\ ret.args[1] \in TodoIds(DB)
    /\ ~TodoRow(DB, ret.args[1]).done
    /\ now > TodoRow(DB, ret.args[1]).created_at
    /\ Cardinality(todo) = 2

\* C9: after any sequence of add, toggle, carry-forward and delete requests,
\* a todo is done exactly when its completed_at is set.
C9_DoneIffCompletedAt ==
    \A t \in todo : t.done <=> t.completed_at # NoTime

\* A carry-forward has left its original done, with a completion time, next
\* to the open copy.
C9_Witness ==
    /\ ret.op = "todo_carry_forward"
    /\ ret.rv # NoId
    /\ \E t \in todo : t.id = ret.args[1] /\ t.done /\ t.completed_at # NoTime
    /\ \E t \in todo : t.id = ret.rv /\ ~t.done

\* C10: carry_forward_todo to a meeting none of whose sections has the
\* department id or the name of the todo's section gives no id and changes
\* nothing: no todo is added, the original is not marked done.
C10_NoTargetSection ==
    [][(/\ ret'.op = "todo_carry_forward"
        /\ LET orig == section[TodoRow(DB, ret'.args[1]).section_id]
           IN  \A s \in SectionsOf(DB, ret'.args[2]) :
                  /\ ~(/\ orig.department_id # NoId
                       /\ section[s].department_id = orig.department_id)
                  /\ section[s].name # orig.name)
       => (ret'.rv = NoId /\ DB' = DB)]_vars

\* A carry-forward of an existing todo was refused: the latest meeting has
\* sections, none for the department or name of the todo's section.
C10_Witness ==
    /\ ret.op = "todo_carry_forward"
    /\ ret.rv = NoId
    /\ ret.args[1] \in TodoIds(DB)
    /\ ~TodoRow(DB, ret.args[1]).done
    /\ SectionsOf(DB, ret.args[2]) # {}

\* The sections of meeting m that carry-forward may pick for a todo of the
\* section orig: the same department, or the same name.
Matching(orig, m) ==
    {s \in SectionsOf(DB, m) :
        \/ (orig.department_id # NoId
            /\ section[s].department_id = orig.department_id)
        \/ section[s].name = orig.name}

\* C11: carry_forward_todo to a meeting that has a matching section succeeds;
\* the original row stays, done with a completed_at, otherwise as it was; and
\* exactly one todo is added, in a matching section of the target, open with
\* no completed_at, with the original's text, assigned_to, priority and
\* due_date and created_at the time of the call.  A refused carry-forward
\* changes neither: the two changes come together or not at all.
C11_CopyAndClose ==
    [][ret'.op = "todo_carry_forward"
       => LET original == TodoRow(DB, ret'.args[1])
              match == Matching(section[original.section_id], ret'.args[2])
          IN  IF match = {} \/ ret'.rv = NoId
              THEN match = {} /\ ret'.rv = NoId /\ DB' = DB
              ELSE \E copy \in todo' :
                     /\ todo' = (todo \ {original})
                                \cup {[original EXCEPT !.done = TRUE,
                                                       !.completed_at = now]}
                                \cup {copy}
                     /\ copy.id = ret'.rv
                     /\ copy.id \notin TodoIds(DB)
                     /\ copy.section_id \in match
                     /\ ~copy.done
                     /\ copy.completed_at = NoTime
                     /\ copy.text = original.text
                     /\ copy.assigned_to = original.assigned_to
                     /\ copy.priority = original.priority
                     /\ copy.due_date = original.due_date
                     /\ copy.created_at = now
                     /\ now # NoTime]_vars

\* A todo was carried into another section at a later time than it was
\* added: the original is done, the copy is open and newer.
C11_Witness ==
    /\ ret.op = "todo_carry_forward"
    /\ ret.rv # NoId
    /\ \E o \in todo, c \in todo :
          /\ o.id = ret.args[1]
          /\ c.id = ret.rv
          /\ o.done
          /\ o.completed_at # NoTime
          /\ c.section_id # o.section_id
          /\ c.created_at > o.created_at

\* C12: a successful carry-forward takes its source from open to done and
\* puts the copy elsewhere: the source was not already done, and the new todo
\* is not in the source's own section, also when the route's target, the
\* latest meeting, is the meeting the todo belongs to.
C12_OpenSourceCopyElsewhere ==
    [][(ret'.op = "todo_carry_forward" /\ ret'.rv # NoId)
       => LET original == TodoRow(DB, ret'.args[1])
          IN  /\ ~original.done
              /\ \A c \in todo' :
                    c.id = ret'.rv => c.section_id # original.section_id]_vars

\* C13: after any sequence of todo adds, with a valid priority or not, and
\* carry-forwards, every stored todo has priority low, normal or high; an
\* add with a priority outside that set is not refused and stores normal.
C13_PriorityNormalised ==
    [][/\ \A t \in todo' : t.priority \in {"low", "normal", "high"}
       /\ (ret'.op = "todo_add" /\ ret'.rv = 200)
          => \E row \in todo' :
                /\ row.id \notin TodoIds(DB)
                /\ todo' = todo \cup {row}
                /\ row.section_id = ret'.args[1]
                /\ row.priority = IF ret'.args[2] \in {"low", "normal", "high"}
                                  THEN ret'.args[2] ELSE "normal"]_vars

\* A todo was added with a priority that is none of the three, then carried
\* forward: original and copy both have priority normal.
C13_Witness ==
    /\ ret.op = "todo_carry_forward"
    /\ ret.rv # NoId
    /\ \E o \in todo, c \in todo :
          /\ o.id = ret.args[1]
          /\ c.id = ret.rv
          /\ o.priority = "normal"
          /\ c.priority = "normal"
    /\ \A t \in todo : t.priority # "high"

\* C14: lock_meeting on a missing meeting returns False and changes nothing;
\* on a locked meeting it returns True and leaves status, locked_by and
\* locked_at as the first lock set them, whoever calls; on an open meeting it
\* returns True and sets status locked, locked_by the caller and locked_at.
C14_LockIdempotent ==
    [][ret'.op = "lock_meeting"
       => LET m == ret'.args[1]
          IN  IF m \notin Ids(meeting)
              THEN ret'.rv = FALSE /\ DB' = DB
              ELSE IF meeting[m].status = "locked"
              THEN ret'.rv = TRUE /\ DB' = DB
              ELSE /\ ret'.rv = TRUE
                   /\ now # NoTime
                   /\ DB' = [DB EXCEPT !.meeting[m] =
                                [@ EXCEPT !.status = "locked",
                                          !.locked_by = ret'.user,
                                          !.locked_at = now]]]_vars

\* A locked meeting was locked again, later and by another user: it still
\* shows the first user and the first time.
C14_Witness ==
    /\ ret.op = "lock_meeting"
    /\ ret.rv = TRUE
    /\ meeting[ret.args[1]].status = "locked"
    /\ meeting[ret.args[1]].locked_by # ret.user
    /\ meeting[ret.args[1]].locked_at < now

\* C15: unlock_meeting on an existing meeting sets status open and clears
\* locked_by and locked_at, and fails only for a missing meeting, where it
\* changes nothing; and unlocking a meeting that has just been locked gives
\* every user and section the can_edit_section answer from before the lock.
C15_Reopen ==
    [][/\ ret'.op = "unlock_meeting"
          => LET m == ret'.args[1]
             IN  IF m \notin Ids(meeting)
                 THEN ret'.rv = FALSE /\ DB' = DB
                 ELSE /\ ret'.rv = TRUE
                      /\ DB' = [DB EXCEPT !.meeting[m] =
                                   [@ EXCEPT !.status = "open",
                                             !.locked_by = NoId,
                                             !.locked_at = NoTime]]
       /\ (ret'.op = "lock_meeting" /\ ret'.rv = TRUE
           /\ meeting[ret'.args[1]].status = "open")
          => LET back == unlock_meeting(DB', ret'.args[1]).D
             IN  /\ back = DB
                 /\ \A u \in Ids(user), s \in Ids(section) :
                       can_edit_section(back, UserRow(back, u), section[s])
                       = can_edit_section(DB, UserRow(DB, u), section[s])]_vars

\* A meeting has been unlocked while the other one is locked: it is open with no locked_by, and a
\* member may edit the section they report for and not the one beside it.
C15_Witness ==
    /\ ret.op = "unlock_meeting"
    /\ ret.rv = TRUE
    /\ meeting[ret.args[1]].status = "open"
    /\ meeting[ret.args[1]].locked_by = NoId
    /\ \E u \in Ids(user), s, q \in SectionsOf(DB, ret.args[1]) :
          /\ user[u].role = "member"
          /\ can_edit_section(DB, UserRow(DB, u), section[s])
          /\ ~can_edit_section(DB, UserRow(DB, u), section[q])
    /\ \E k \in Ids(meeting) : meeting[k].status = "locked"

\* C16: reorder_departments with a list that is a permutation of all the
\* departments rewrites every sort_order: the department at position i of
\* the list (counted from 0) gets sort_order i, so the sort_order values are
\* pairwise distinct and list_departments returns the submitted order; no
\* other column changes.
C16_ReorderRewrites ==
    [][(ret'.op = "reorder_departments" /\ Len(ret'.args) = Len(department))
       => LET order == ret'.args
          IN  /\ \A i \in 1..Len(order) :
                    department'[order[i]]
                    = [department[order[i]] EXCEPT !.sort_order = i - 1]
              /\ \A d, e \in Ids(department') :
                    department'[d].sort_order = department'[e].sort_order
                    => d = e
              /\ list_departments(DB', TRUE) = order
              /\ list_departments(DB', FALSE)
                 = SelectSeq(order, LAMBDA d : ~department[d].is_archived)]_vars

\* The three departments have been reordered to 3, 1, 2.
C16_Witness ==
    /\ ret.op = "reorder_departments"
    /\ ret.args = <<3, 1, 2>>
    /\ department[3].sort_order = 0
    /\ department[1].sort_order = 1
    /\ department[2].sort_order = 2

ReportersOf(rows, d) == {r \in rows : r.department_id = d}
Primaries(rows, d) == {r \in ReportersOf(rows, d) : r.is_primary}
ReporterSaves == {"department_create", "department_edit", "set_department_reporters"}

C18_LimitedIffFiveFailed ==
    [][(ret'.op = "login" /\ ret'.args[2] # "home")
       => LET ip == ret'.args[1]
          IN  ret'.rv = 429 <=> Len(recent(failed_logins[ip], now)) >= RATE_LIMIT]_vars

\* What the code does: the request is answered 429, with no attempt recorded
\* and the credentials not evaluated, exactly when RATE_LIMIT attempts of its
\* address that were evaluated, failed or successful, lie within the window;
\* the attempts of the other address within the window stay as they are.
C18_LimitedIffFiveEvaluated ==
    [][(ret'.op = "login" /\ ret'.args[2] # "home")
       => LET ip == ret'.args[1]
          IN  /\ ret'.rv = 429
                 <=> Len(recent(attempts_of(login_attempts, ip), now)) >= RATE_LIMIT
              /\ ret'.rv = 429 <=> ret'.args[2] = "limited"
              /\ ret'.rv = 429 => session' = session
              /\ \A o \in IPs \ {ip} :
                    recent(attempts_of(login_attempts', o), now)
                    = recent(attempts_of(login_attempts, o), now)]_vars

UnsafeMethod(method) == method \notin {"", "GET", "HEAD", "OPTIONS"}

\* C19 as stated: a request with a method other than GET, HEAD, OPTIONS,
\* on whatever route, either carries a token equal to the non-empty token of
\* the session, or is answered 403 with the data and the session unchanged.
C19_TokenOrRejected ==
    [][UnsafeMethod(request'.method)
       => \/ request'.token # NoToken /\ request'.token = session.csrf_token
          \/ ret'.rv = 403 /\ DB' = DB /\ session' = session]_vars

\* What the code does: the same on every endpoint other than auth.login and
\* auth.logout.
C19_TokenOrRejectedButLogin ==
    [][(UnsafeMethod(request'.method)
            /\ request'.endpoint \notin {"auth.login", "auth.logout"})
       => \/ request'.token # NoToken /\ request'.token = session.csrf_token
          \/ ret'.rv = 403 /\ DB' = DB /\ session' = session]_vars

\* C20 as stated: whatever calls of run_migrations have been made, failed
\* ones among them, no statement of a migration script has run more than
\* once, and a version is in schema_version exactly when its script has run.
C20_OnceAndRecorded ==
    \A v \in Migrations :
        /\ \A k \in 1..ScriptLen : executed[v][k] <= 1
        /\ v \in schema_version <=> \E k \in 1..ScriptLen : executed[v][k] >= 1

\* What the code keeps: a recorded version's script has run to its end, and
\* a call that does not fail leaves every version recorded.
C20_RecordedRanWhole ==
    /\ \A v \in schema_version : \A k \in 1..ScriptLen : executed[v][k] >= 1
    /\ (ret.op = "run_migrations" /\ ret.rv = "ok") => schema_version = Migrations

\* C21 as stated: a run of run_migrations applies the pending migrations in
\* ascending order of their integer versions, whatever the zero-padding of
\* the file names, and when one fails no higher version has been applied in
\* that run.
C21_AscendingVersions ==
    ret.op = "run_migrations"
    => LET order == ret.args[2]
       IN  \A i, j \in 1..Len(order) : i < j => order[i] < order[j]

\* What the code does: the pending files are taken in the order of their
\* names as strings, and the migration that fails is the last one begun.
C21_NameOrderAndAbort ==
    ret.op = "run_migrations"
    => LET order == ret.args[2]
           names == sorted(MigrationFiles)
           place(v) == CHOOSE i \in 1..Len(names) : version(names[i]) = v
       IN  /\ \A i, j \in 1..Len(order) : i < j => place(order[i]) < place(order[j])
           /\ ret.rv = "RuntimeError"
              => /\ order # <<>>
                 /\ order[Len(order)] = ret.args[1][1]
                 /\ order[Len(order)] \notin schema_version

\* C22 as stated: after any sequence of writes the index holds exactly the
\* entries rebuild_search_index would produce: one for every todo and one
\* for every section with content, with the current text.
C22_IndexInSync ==
    search_index = rebuild_search_index(DB).search_index

\* What the code keeps: the index holds no entry that a rebuild would not
\* produce (todo text and section names are never edited in place).
C22_IndexNotStale ==
    search_index \subseteq rebuild_search_index(DB).search_index

AdminOnly == {"meeting_lock", "meeting_unlock", "meeting_attendance_update", "user_edit"}
Holder(uid) == [user_id |-> uid]

ActiveAdmins(users) ==
    {u \in Ids(users) : users[u].role = "admin" /\ users[u].is_active}

\* C26: a user-edit request leaves at least one active admin.  A request by
\* which the acting admin would deactivate their own account or give up
\* their own admin role is answered with the form again and changes no row.
C26_AdminRemains ==
    [][ret'.op = "user_edit"
       => LET acting == get_current_user(DB, Holder(ret'.user))
          IN  /\ ActiveAdmins(user) # {} => ActiveAdmins(user') # {}
              /\ (/\ acting \in ActiveAdmins(user)
                  /\ ret'.args[1] = acting
                  /\ ~ret'.args[4] \/ ret'.args[3] = "member")
                 => ret'.rv = 200 /\ DB' = DB]_vars

\* Ann, one of two admins, has asked to deactivate her own account and got
\* the form again.
C26_Witness ==
    /\ ret.op = "user_edit" /\ ret.rv = 200
    /\ ret.user = 1 /\ ret.args[1] = 1 /\ ret.args[4] = FALSE
    /\ ActiveAdmins(user) = {1, 2}

LoginOnly == {"todo_toggle", "user_edit"}

\* C27: authenticate_user answers None for an inactive user, so no login
\* succeeds as one; a request to a login-required or admin-required route
\* from a session whose user is inactive is redirected to the login page
\* and changes nothing, and once the user is active again the session is
\* served as before.
C27_InactiveShutOut ==
    [][/\ \A u \in Ids(user) : ~user[u].is_active => authenticate_user(DB, u) = NoId
       /\ (ret'.op = "login" /\ ret'.args[2] = "evaluated" /\ ret'.rv = 302)
          => user[ret'.user].is_active
       /\ (ret'.op \in LoginOnly /\ ret'.user \in Ids(user))
          => IF user[ret'.user].is_active
             THEN ret'.args[2] # "auth.login"
             ELSE ret'.rv = 302 /\ ret'.args[2] = "auth.login" /\ DB' = DB]_vars

\* Bob, deactivated, has sent a toggle of an existing todo from the session
\* he holds and was redirected to the login page.
C27_Witness ==
    /\ ret.op = "todo_toggle" /\ ret.user = 2 /\ ~user[2].is_active
    /\ ret.rv = 302 /\ ret.args[2] = "auth.login"
    /\ ret.args[1] \in TodoIds(DB)

\* C24: a save that has passed its check always writes and is answered 200,
\* whatever other save is in flight or has been written since; the section
\* then holds exactly the content of that save, the content there before is
\* gone, and no other section changes.
C24_LastWriteWins ==
    [][/\ \A u \in Ids(user) :
            in_flight[u] # NoSave
            => ENABLED (SaveCommit /\ ret'.user = u)
       /\ (ret'.op = "section_save" /\ ret'.rv = 200)
          => LET s == ret'.args[1]
             IN  /\ in_flight[ret'.user] = [section |-> s, content |-> ret'.args[2]]
                 /\ section'[s].content = ret'.args[2]
                 /\ \A o \in Ids(section) \ {s} :
                       section'[o].content = section[o].content]_vars

\* Both users had a save of section 1 in flight; "x" was written first and
\* "y" has now replaced it.
C24_Witness ==
    /\ ret.op = "section_save" /\ ret.rv = 200
    /\ ret.args = <<1, "y", "x">>
    /\ section[1].content = "y"
    /\ \A u \in Ids(user) : in_flight[u] = NoSave
    /\ section[1].updated_at # NoTime

LockedSection(s) == meeting[section[s].meeting_id].status = "locked"

\* C29 as stated: whatever the interleaving of saves and locks, the content
\* of a section of a locked meeting does not change.
C29_LockedContentFixed ==
    [][\A s \in Ids(section) :
          LockedSection(s) => section'[s].content = section[s].content]_vars

\* C29: the permission check of a save passes only while the meeting is
\* open, and the content of a section of a locked meeting is changed only by
\* the write of a save that had passed its check before.
C29_GateOnly ==
    [][/\ ret'.op = "can_edit_section" => ~LockedSection(ret'.args[1])
       /\ \A s \in Ids(section) :
            (LockedSection(s) /\ section'[s].content # section[s].content)
            => /\ ret'.op = "section_save"
               /\ in_flight[ret'.user].section = s]_vars

\* A save checked while the meeting was open has written new content into a
\* section of the meeting, which is locked.
C29_Witness ==
    /\ ret.op = "section_save" /\ ret.rv = 200
    /\ ret.args[2] # ret.args[3]
    /\ LockedSection(ret.args[1])

\* C25: the sections of a meeting are fixed when the meeting is created.  No
\* request (department create, edit, archive or reorder with its reporters,
\* template create, edit, delete or save from a meeting, a new meeting blank,
\* copied or from a template, section save, todo add, toggle, delete or carry
\* forward, lock, unlock) removes a section, gives an existing meeting a
\* new section, or changes the meeting, name, sort_order, is_special or
\* department_id of a section.
C25_SectionsFixed ==
    [][/\ \A s \in Ids(section) :
            /\ s \in Ids(section')
            /\ section'[s].meeting_id = section[s].meeting_id
            /\ section'[s].name = section[s].name
            /\ section'[s].sort_order = section[s].sort_order
            /\ section'[s].is_special = section[s].is_special
            /\ section'[s].department_id = section[s].department_id
       /\ \A s \in Ids(section') \ Ids(section) :
            section'[s].meeting_id \notin Ids(meeting)]_vars

\* Department 1 has been renamed and a second meeting made; meeting 1 has
\* the sections it was created with, the first still named Eng.
C25_Witness ==
    /\ department[1].name # "Eng"
    /\ Len(meeting) = 2
    /\ SectionsOf(DB, 1) = SectionsOf(FrameDB, 1)
    /\ section[1].name = "Eng" /\ section[1].department_id = 1

\* The sections of meeting m made from the department of section o.
DeptMatches(o, m) ==
    {s \in SectionsOf(DB, m) :
        /\ section[o].department_id # NoId
        /\ section[s].department_id = section[o].department_id}

\* C28: a carried-forward todo goes to a section of the target meeting with
\* the department_id of the section it comes from whenever there is one, even
\* if another section of the target meeting has that section's name; it goes
\* to a section with the name only when no section has the department (or
\* the originating section has no department).
C28_DepartmentFirst ==
    [][(ret'.op = "todo_carry_forward" /\ ret'.rv # NoId) =>
        LET o == TodoRow(DB, ret'.args[1]).section_id
            target == TodoRow(DB', ret'.rv).section_id
        IN  /\ section[target].meeting_id = ret'.args[2]
            /\ IF DeptMatches(o, ret'.args[2]) # {}
               THEN target \in DeptMatches(o, ret'.args[2])
               ELSE section[target].name = section[o].name]_vars

\* A todo of section 1 (Eng, department 1) was carried into meeting 3: the
\* copy is in Ops, the section of department 1, not in the section named Eng.
C28_Witness ==
    /\ ret.op = "todo_carry_forward" /\ ret.rv # NoId
    /\ ret.args[2] = 3
    /\ TodoRow(DB, ret.args[1]).section_id = 1
    /\ section[TodoRow(DB, ret.rv).section_id].name = "Ops"
    /\ \E s \in SectionsOf(DB, 3) : section[s].name = section[1].name

\* A todo of section 2 (QA, department 2), whose department has no section in
\* meeting 3, was carried into the section named QA.
C28_NameFallback ==
    /\ ret.op = "todo_carry_forward" /\ ret.rv # NoId
    /\ TodoRow(DB, ret.args[1]).section_id = 2
    /\ DeptMatches(2, 3) = {}
    /\ section[TodoRow(DB, ret.rv).section_id].name = "QA"

\* The recorded attempts of an address that are younger than RATE_WINDOW.
InWindow(attempts, ip, t) == recent(attempts_of(attempts, ip), t)

\* C30: a login request is answered 429 exactly when RATE_LIMIT recorded
\* attempts of its address are younger than RATE_WINDOW; the handling of a
\* request, the sweep of stale addresses included, discards no attempt of any
\* address that is still inside the window; a request answered 429 records
\* nothing; so an address none of whose recorded attempts is inside the
\* window any more is not answered 429.
C30_WindowOnly ==
    [][(ret'.op = "login" /\ ret'.args[2] # "home")
       => LET ip == ret'.args[1]
          IN  /\ ret'.rv = 429
                 <=> Len(InWindow(login_attempts, ip, now)) >= RATE_LIMIT
              /\ \A o \in IPs \ {ip} :
                    InWindow(login_attempts', o, now) = InWindow(login_attempts, o, now)
              /\ InWindow(login_attempts', ip, now)
                 = IF ret'.rv = 429 THEN InWindow(login_attempts, ip, now)
                   ELSE Append(InWindow(login_attempts, ip, now), now)
              /\ InWindow(login_attempts, ip, now) = <<>> => ret'.rv # 429]_vars

\* A request of a limited address was answered 429 and its sweep deleted
\* the key of the other address, whose attempts had all become stale.
C30_Witness ==
    /\ ret.op = "login" /\ ret.rv = 429
    /\ Len(InWindow(login_attempts, ret.args[1], now)) >= RATE_LIMIT
    /\ \E o \in IPs \ DOMAIN login_attempts : failed_logins[o] # <<>>

\* An address has RATE_LIMIT recorded attempts and all of them have left
\* the window.
C30_AgedOut ==
    \E ip \in DOMAIN login_attempts :
        /\ Len(login_attempts[ip]) >= RATE_LIMIT
        /\ InWindow(login_attempts, ip, now) = <<>>
====
